---------------------------- MODULE Spec2Model ----------------------------
(***************************************************************************)
(* A model of the schema-driven presentation engine of dso-api:            *)
(*   - the streaming paginator   (rest_framework_dso/paginator.py)         *)
(*   - the field-access walk and request validation                        *)
(*                               (dso_api/dynamic_api/permissions.py)      *)
(*   - the serializer factory and its cache                                *)
(*                               (dynamic_api/serializers/factories.py)    *)
(*   - the href of a link to a temporal row (dynamic_api/fields.py)        *)
(* Each component has its own specifications (SpecPage; SpecWalk,          *)
(* SpecValidate, SpecParse, SpecExpand; SpecFactory, SpecRace; SpecUrl);   *)
(* the variables of the other components do not change under them.         *)
(***************************************************************************)
EXTENDS Integers, Sequences, FiniteSets, TLC

VARIABLES
    \* ---- paginator -----------------------------------------------------
    rows,           \* number of rows of the backing row source (row i is i)
    per_page,       \* DSOPaginator.per_page
    is_queryset,    \* whether the paginator's object_list is a QuerySet
    page_number,    \* DSOPage.number (0: no page has been created)
    page_length,    \* DSOPage._length
    page_has_next,  \* DSOPage._has_next: "None", "True" or "False"
    iters,          \* the ObservableIterators created over the page's slice
    obs_iterator,   \* ObservableQuerySet._obs_iterator: index in iters, 0 = None
    pag_op,         \* the last paginator operation called
    pag_arg,        \* the page number argument of that operation
    pag_result,     \* what that operation returned or raised
    \* ---- authorization -------------------------------------------------
    auth_call,      \* the call made: function and arguments
    auth_result,    \* "none" before the call, then "ok" or the exception raised
    \* ---- serializer factory --------------------------------------------
    factory_cache,  \* _serializer_factory_cache: key -> class instance (0: absent)
    temporal_cache, \* _temporal_link_serializer_factory_cache: model -> instance
    next_instance,  \* identity of the next class that construct_class() creates
    returned,       \* key -> instance last returned for it since the last clear
    fac_call,       \* the last serializer_factory call and its outcome
    callers,        \* the threads inside serializer_factory: where each one is
    \* ---- link fields ---------------------------------------------------
    url_call,       \* the get_url call made: the row and the request
    url_result      \* "none" before the call, then what get_url returned or raised

pagVars == <<rows, per_page, is_queryset, page_number, page_length,
             page_has_next, iters, obs_iterator, pag_op, pag_arg,
             pag_result>>
authVars == <<auth_call, auth_result>>
facVars == <<factory_cache, temporal_cache, next_instance, returned, fac_call,
             callers>>
urlVars == <<url_call, url_result>>
vars == <<pagVars, authVars, facVars, urlVars>>

Min(a, b) == IF a < b THEN a ELSE b
Max(a, b) == IF a > b THEN a ELSE b

(***************************************************************************)
(* Bounds of the model.                                                    *)
(***************************************************************************)
MaxRows == 5
MaxPerPage == 2
MaxPage == 4
MaxIters == 2
MaxSegs == 2
MaxKeySegs == 1
MaxSortKeys == 2
MaxInstances == 3
MaxLevel == 11
MaxKeyLen == 4
MaxThreads == 2
MaxPkLen == 5
MaxExpands == 2


(***************************************************************************)
(*                        STREAMING PAGINATOR                              *)
(***************************************************************************)

\* Page numbers a caller may pass: an int k is [kind "int", halves 2k], a float
\* x is [kind "float", halves 2x] (so 1.5 is 3 halves), a numeric string "k"
\* is [kind "str", halves 2k], a non-numeric string is kind "text" and None
\* is kind "none".
PageNumberInputs ==
    [kind : {"int"}, halves : {2 * k : k \in -1 .. MaxPage}]
      \cup [kind : {"float"}, halves : 1 .. (2 * MaxPage)]
      \cup [kind : {"str"}, halves : {2 * k : k \in 0 .. MaxPage}]
      \cup [kind : {"text", "none"}, halves : {0}]

NoArg == [kind |-> "-", halves |-> 0]

\* validate_number that truncates a float instead of refusing a fraction
validate_number_truncating(number) ==
    IF number.kind \in {"text", "none"}
    THEN [raised |-> "PageNotAnInteger", number |-> 0]
    ELSE IF number.halves \div 2 < 1
         THEN [raised |-> "EmptyPage", number |-> 0]
         ELSE [raised |-> "none", number |-> number.halves \div 2]

\* DSOPaginator.validate_number
validate_number(number) ==
    IF \/ number.kind \in {"text", "none"}
       \/ (number.kind = "float" /\ number.halves % 2 # 0)
    THEN [raised |-> "PageNotAnInteger", number |-> 0]
    ELSE IF number.halves \div 2 < 1
         THEN [raised |-> "EmptyPage", number |-> 0]
         ELSE [raised |-> "none", number |-> number.halves \div 2]

\* DSOPaginator.page: bottom, top and the slice object_list[bottom : top + sentinel]
Bottom(number) == (number - 1) * per_page
Top(number) == Bottom(number) + per_page
Sentinel == 1
SliceLen(number) == Max(0, Min(Top(number) + Sentinel, rows) - Bottom(number))
\* the j-th row (1-based) of the slice given to page `number`
SliceRow(number, j) == Bottom(number) + j - 1

\* ObservableIterator(iterable, observers): a fresh iterator over the slice.
\* held, got and ended are the consumer's view: whether it received the
\* iterator, the rows its pulls returned, and whether a pull ended in
\* StopIteration.
NewIterator ==
    [pos |-> 0, number_returned |-> 0, is_iterated |-> FALSE, observed |-> TRUE,
     held |-> TRUE, got |-> <<>>, ended |-> FALSE]

\* ObservableIterator.__bool__: whether the iterator would yield an item
IteratorHasItems(it, number) == it.pos < SliceLen(number)

\* A DSOPage's own fields: number, _length, _has_next
NewPageFields(number) == [number |-> number, length |-> 0, has_next |-> "None"]

RECURSIVE iterator_next(_, _), watch_object_list(_, _, _)

\* _watch_object_list with the sentinel test off by one: a next page is
\* reported as soon as per_page rows were produced.
watch_object_list_has_next_at_limit(it, pg, iterator_is_empty) ==
    IF iterator_is_empty /\ pg.number > 1
    THEN [it |-> it, page |-> pg, raised |-> "Http404", value |-> -1]
    ELSE LET number_returned == it.number_returned
             page1 == [pg EXCEPT
                         !.length = Min(per_page, number_returned),
                         !.has_next = IF number_returned >= per_page
                                      THEN "True" ELSE "False"]
         IN  IF it.number_returned = per_page
             THEN [iterator_next(it, page1) EXCEPT !.value = -1]
             ELSE [it |-> it, page |-> page1, raised |-> "none", value |-> -1]

\* _watch_object_list without the test on the page number: every empty
\* slice is out of range.
watch_object_list_404_on_first(it, pg, iterator_is_empty) ==
    IF iterator_is_empty
    THEN [it |-> it, page |-> pg, raised |-> "Http404", value |-> -1]
    ELSE LET number_returned == it.number_returned
             page1 == [pg EXCEPT
                         !.length = Min(per_page, number_returned),
                         !.has_next = IF number_returned > per_page
                                      THEN "True" ELSE "False"]
         IN  IF it.number_returned = per_page
             THEN [iterator_next(it, page1) EXCEPT !.value = -1]
             ELSE [it |-> it, page |-> page1, raised |-> "none", value |-> -1]

\* _watch_object_list with the length taken as the number of rows produced,
\* the sentinel included
watch_object_list_uncapped_length(it, pg, iterator_is_empty) ==
    IF iterator_is_empty /\ pg.number > 1
    THEN [it |-> it, page |-> pg, raised |-> "Http404", value |-> -1]
    ELSE LET number_returned == it.number_returned
             page1 == [pg EXCEPT
                         !.length = number_returned,
                         !.has_next = IF number_returned > per_page
                                      THEN "True" ELSE "False"]
         IN  IF it.number_returned = per_page
             THEN [iterator_next(it, page1) EXCEPT !.value = -1]
             ELSE [it |-> it, page |-> page1, raised |-> "none", value |-> -1]

\* ObservableIterator.__next__ on iterator `it` of page `pg`. The observer
\* it notifies is the page's _watch_object_list; an exception the observer
\* raises leaves __next__ in place of the value.
iterator_next(it, pg) ==
    IF it.pos >= SliceLen(pg.number)
    THEN [it |-> [it EXCEPT !.is_iterated = TRUE], page |-> pg,
          raised |-> "StopIteration", value |-> -1]
    ELSE LET it1 == [it EXCEPT !.pos = @ + 1, !.number_returned = @ + 1]
             v == SliceRow(pg.number, it1.pos)
         IN  IF ~it1.observed
             THEN [it |-> it1, page |-> pg, raised |-> "none", value |-> v]
             ELSE LET w == watch_object_list(it1, pg, FALSE)
                  IN  [w EXCEPT !.value = IF w.raised = "none" THEN v ELSE -1]

\* DSOPage._watch_object_list(item, observable_iterator, iterator_is_empty)
watch_object_list(it, pg, iterator_is_empty) ==
    IF iterator_is_empty /\ pg.number > 1
    THEN [it |-> it, page |-> pg, raised |-> "Http404", value |-> -1]
    ELSE LET number_returned == it.number_returned
             page1 == [pg EXCEPT
                         !.length = Min(per_page, number_returned),
                         !.has_next = IF number_returned > per_page
                                      THEN "True" ELSE "False"]
         IN  IF it.number_returned = per_page
             THEN \* next(observable_iterator): the sentinel is thrown away
                  [iterator_next(it, page1) EXCEPT !.value = -1]
             ELSE [it |-> it, page |-> page1, raised |-> "none", value |-> -1]

\* The DSOPage of the state, as a record
ThePage == [number |-> page_number, length |-> page_length,
            has_next |-> page_has_next]

\* ObservableQuerySet.is_iterated (a QuerySet) / ObservableIterator.is_iterated
object_list_is_iterated ==
    IF is_queryset
    THEN obs_iterator # 0 /\ iters[obs_iterator].is_iterated
    ELSE iters[1].is_iterated

\* DSOPage.is_iterated
is_iterated == page_number # 0 /\ object_list_is_iterated

\* has_next without the is_iterated test
has_next_unguarded == page_has_next

\* DSOPage.has_next
has_next == IF is_iterated THEN page_has_next ELSE "None"

\* DSOPage.__len__
page_len == page_length

\* No page has been requested yet
NoPage ==
    /\ page_number = 0
    /\ page_length = 0
    /\ page_has_next = "None"
    /\ iters = <<>>
    /\ obs_iterator = 0
    /\ pag_op = "none"
    /\ pag_arg = NoArg
    /\ pag_result = "none"

\* DSOPaginator(object_list, per_page) over a row source of any size
InitPage ==
    /\ rows \in 0 .. MaxRows
    /\ per_page \in 1 .. MaxPerPage
    /\ is_queryset \in BOOLEAN
    /\ NoPage

\* No paginator is in use: the other components run without one
InitNoPaginator ==
    /\ rows = 0
    /\ per_page = 1
    /\ is_queryset = FALSE
    /\ NoPage

\* DSOPage.__init__ that wraps every object_list in an ObservableIterator
\* and looks whether it is empty, a queryset too
DSOPage_init_always_wraps(number) ==
    LET it == NewIterator
        w == IF IteratorHasItems(it, number)
             THEN [it |-> it, page |-> NewPageFields(number),
                   raised |-> "none", value |-> -1]
             ELSE watch_object_list(it, NewPageFields(number), TRUE)
    IN  IF w.raised # "none"
        THEN /\ pag_result' = w.raised
             /\ UNCHANGED <<page_number, page_length, page_has_next,
                            iters, obs_iterator>>
        ELSE /\ page_number' = w.page.number
             /\ page_length' = w.page.length
             /\ page_has_next' = w.page.has_next
             /\ iters' = <<w.it>>
             /\ obs_iterator' = 0
             /\ pag_result' = "page"

\* DSOPage.__init__(object_list, number, paginator) on the slice of page `number`
DSOPage_init(number) ==
    IF is_queryset
    THEN \* ObservableQuerySet.from_queryset: no iterator exists yet
         /\ page_number' = number
         /\ page_length' = 0
         /\ page_has_next' = "None"
         /\ iters' = <<>>
         /\ obs_iterator' = 0
         /\ pag_result' = "page"
    ELSE LET it == NewIterator
             w == IF IteratorHasItems(it, number)
                  THEN [it |-> it, page |-> NewPageFields(number),
                        raised |-> "none", value |-> -1]
                  ELSE watch_object_list(it, NewPageFields(number), TRUE)
         IN  IF w.raised # "none"
             THEN /\ pag_result' = w.raised
                  /\ UNCHANGED <<page_number, page_length, page_has_next,
                                 iters, obs_iterator>>
             ELSE /\ page_number' = w.page.number
                  /\ page_length' = w.page.length
                  /\ page_has_next' = w.page.has_next
                  /\ iters' = <<w.it>>
                  /\ obs_iterator' = 0
                  /\ pag_result' = "page"

\* DSOPaginator.page(number): the strict accessor
page(number) ==
    LET v == validate_number(number)
    IN  IF v.raised # "none"
        THEN /\ pag_result' = v.raised
             /\ UNCHANGED <<page_number, page_length, page_has_next, iters,
                            obs_iterator>>
        ELSE DSOPage_init(v.number)

\* DSOPaginator.get_page(number): the tolerant accessor
get_page(number) ==
    LET v == validate_number(number)
    IN  IF v.raised = "PageNotAnInteger"
        THEN page([kind |-> "int", halves |-> 2])
        ELSE IF v.raised # "none"
             THEN /\ pag_result' = v.raised
                  /\ UNCHANGED <<page_number, page_length, page_has_next, iters,
                                 obs_iterator>>
             ELSE page([kind |-> "int", halves |-> 2 * v.number])

PageCall ==
    \E number \in PageNumberInputs :
        /\ page_number = 0
        /\ pag_op' = "page"
        /\ pag_arg' = number
        /\ page(number)
        /\ UNCHANGED <<rows, per_page, is_queryset, authVars, facVars, urlVars>>

GetPageCall ==
    \E number \in PageNumberInputs :
        /\ page_number = 0
        /\ pag_op' = "get_page"
        /\ pag_arg' = number
        /\ get_page(number)
        /\ UNCHANGED <<rows, per_page, is_queryset, authVars, facVars, urlVars>>

\* _set_observable_iterator without clear_observers() on the iterator it
\* replaces
set_observable_iterator_keeps_observers ==
    LET it == NewIterator
        w == IF IteratorHasItems(it, page_number)
             THEN [it |-> it, page |-> ThePage, raised |-> "none", value |-> -1]
             ELSE watch_object_list(it, ThePage, TRUE)
    IN  /\ iters' = Append(iters, [w.it EXCEPT !.held = (w.raised = "none")])
        /\ obs_iterator' = Len(iters) + 1
        /\ page_length' = w.page.length
        /\ page_has_next' = w.page.has_next
        /\ pag_result' = IF w.raised = "none" THEN "iterator" ELSE w.raised

\* ObservableQuerySet.__iter__ / iterator -> _set_observable_iterator: the
\* consumer asks the page's queryset for an iterator.
set_observable_iterator ==
    LET it == NewIterator
        cleared == [j \in 1 .. Len(iters) |->
                      IF j = obs_iterator
                      THEN [iters[j] EXCEPT !.observed = FALSE]
                      ELSE iters[j]]
        w == IF IteratorHasItems(it, page_number)
             THEN [it |-> it, page |-> ThePage, raised |-> "none", value |-> -1]
             ELSE watch_object_list(it, ThePage, TRUE)
    IN  /\ iters' = Append(cleared, [w.it EXCEPT !.held = (w.raised = "none")])
        /\ obs_iterator' = Len(iters) + 1
        /\ page_length' = w.page.length
        /\ page_has_next' = w.page.has_next
        /\ pag_result' = IF w.raised = "none" THEN "iterator" ELSE w.raised

IterCall ==
    /\ page_number # 0
    /\ is_queryset
    /\ Len(iters) < MaxIters
    /\ pag_op' = "iter"
    /\ pag_arg' = NoArg
    /\ set_observable_iterator
    /\ UNCHANGED <<rows, per_page, is_queryset, page_number, authVars, facVars, urlVars>>

\* The consumer pulls one row from iterator i: next(iterator)
NextCall ==
    \E i \in 1 .. Len(iters) :
        /\ page_number # 0
        /\ iters[i].held
        /\ LET r == iterator_next(iters[i], ThePage)
               it1 == IF r.raised = "none"
                      THEN [r.it EXCEPT !.got = Append(@, r.value)]
                      ELSE [r.it EXCEPT !.ended = TRUE]
           IN  /\ iters' = [iters EXCEPT ![i] = it1]
               /\ page_length' = r.page.length
               /\ page_has_next' = r.page.has_next
               /\ pag_result' = IF r.raised = "none" THEN "row" ELSE r.raised
        /\ pag_op' = "next"
        /\ pag_arg' = NoArg
        /\ UNCHANGED <<rows, per_page, is_queryset, page_number, obs_iterator,
                       authVars, facVars, urlVars>>

\* Paginator.count, inherited from django.core.paginator.Paginator (DSOPaginator
\* does not override it): the number of rows of object_list. The result "int"
\* stands for that integer, which is rows.
count == "int"

\* num_pages as django.core.paginator.Paginator computes it
num_pages_inherited == "int"

\* DSOPaginator.num_pages
num_pages == "NotImplementedError"

\* DSOPaginator.page_range
page_range == "NotImplementedError"

CountCall ==
    /\ pag_op' = "count"
    /\ pag_arg' = NoArg
    /\ pag_result' = count
    /\ UNCHANGED <<rows, per_page, is_queryset, page_number, page_length,
                   page_has_next, iters, obs_iterator, authVars, facVars, urlVars>>

NumPagesCall ==
    /\ pag_op' = "num_pages"
    /\ pag_arg' = NoArg
    /\ pag_result' = num_pages
    /\ UNCHANGED <<rows, per_page, is_queryset, page_number, page_length,
                   page_has_next, iters, obs_iterator, authVars, facVars, urlVars>>

PageRangeCall ==
    /\ pag_op' = "page_range"
    /\ pag_arg' = NoArg
    /\ pag_result' = page_range
    /\ UNCHANGED <<rows, per_page, is_queryset, page_number, page_length,
                   page_has_next, iters, obs_iterator, authVars, facVars, urlVars>>


NextPage ==
    \/ PageCall
    \/ GetPageCall
    \/ IterCall
    \/ NextCall
    \/ CountCall
    \/ NumPagesCall
    \/ PageRangeCall


(***************************************************************************)
(* Properties of the paginator, checked under SpecPage.                    *)
(***************************************************************************)

\* The iterator the page watches: the queryset's last one, or the page's own
CurrentIterator == IF is_queryset THEN iters[obs_iterator] ELSE iters[1]
HasCurrentIterator == IF is_queryset THEN obs_iterator # 0 ELSE Len(iters) > 0

\* The rows of page `number` in backing order: indices (N-1)*P .. min(N*P, n)-1
PageRows(number) ==
    [j \in 1 .. Min(per_page, SliceLen(number)) |-> SliceRow(number, j)]

\* The page number the last page()/get_page() call asked for (0: rejected)
RequestedPage ==
    IF page_number # 0 THEN page_number
    ELSE IF pag_op = "page" THEN validate_number(pag_arg).number
    ELSE IF pag_op = "get_page"
         THEN IF validate_number(pag_arg).raised = "PageNotAnInteger"
              THEN 1
              ELSE validate_number(pag_arg).number
    ELSE 0

\* C5: once the page has been drained, for page N of size P over n rows with
\* (N-1)*P < n or N = 1, the realized length is min(P, n - (N-1)*P) and
\* has_next is true exactly when n > N*P (and is false otherwise).
C5_DrainedLengthAndHasNext ==
    (is_iterated /\ (Bottom(page_number) < rows \/ page_number = 1))
        => /\ page_len = Min(per_page, Max(0, rows - Bottom(page_number)))
           /\ has_next = IF rows > page_number * per_page THEN "True" ELSE "False"

\* A drained full last page: exactly P rows remained, length P, no next page
C5_Witness_FullLastPage ==
    /\ is_iterated
    /\ rows = page_number * per_page
    /\ page_len = per_page
    /\ has_next = "False"

\* C6: a consumer that iterates the page to its end has received exactly the
\* rows at indices (N-1)*P .. min(N*P, n)-1, each once and in backing order;
\* the sentinel is not among them and no row of the page is missing.
C6_ConsumerReceivesThePage ==
    \A i \in 1 .. Len(iters) :
        (iters[i].observed /\ iters[i].ended)
            => iters[i].got = PageRows(page_number)

\* C7: has_next() is None at every point before the page's sequence has
\* signalled exhaustion to its consumer; a definite answer is given only when
\* every row of the slice was pulled and a pull ended in StopIteration.
C7_HasNextUnknownUntilDrained ==
    (page_number # 0 /\ has_next # "None")
        => /\ HasCurrentIterator
           /\ CurrentIterator.ended
           /\ CurrentIterator.pos = SliceLen(page_number)

\* Some rows were pulled and the page has recorded an answer, but the
\* sequence is not exhausted: has_next() is still None
C7_Witness_PartlyPulled ==
    /\ page_number # 0
    /\ HasCurrentIterator
    /\ CurrentIterator.pos > 0
    /\ ~CurrentIterator.ended
    /\ page_has_next # "None"
    /\ has_next = "None"

\* C8: page 1 over zero rows is a valid empty page (no failure; length 0 and
\* has_next false once read), a page N > 1 whose slice yields zero rows
\* fails with Http404 (when the page wraps a list: at construction; when it
\* wraps a queryset: when the slice is first read), and Http404 is raised in
\* no other case.
C8_EmptyPagePolicy ==
    LET N == RequestedPage
    IN  /\ pag_result = "Http404" => (N > 1 /\ SliceLen(N) = 0)
        /\ (pag_op \in {"page", "get_page"} /\ ~is_queryset /\ N > 1
               /\ SliceLen(N) = 0) => pag_result = "Http404"
        /\ (pag_op = "iter" /\ N > 1 /\ SliceLen(N) = 0)
               => pag_result = "Http404"
        /\ (pag_op \in {"page", "get_page"} /\ N = 1 /\ rows = 0)
               => pag_result = "page"
        /\ (pag_op = "iter" /\ N = 1 /\ rows = 0) => pag_result = "iterator"
        /\ (page_number = 1 /\ rows = 0 /\ is_iterated)
               => (page_len = 0 /\ has_next = "False")

\* Page 2 of a list of at most P rows was asked for and refused
C8_Witness_OutOfRange ==
    /\ pag_op \in {"page", "get_page"}
    /\ RequestedPage > 1
    /\ SliceLen(RequestedPage) = 0
    /\ pag_result = "Http404"

\* Whether a page number argument is integer-valued, and its value then
IsIntegerValued(number) ==
    \/ number.kind \in {"int", "str"}
    \/ (number.kind = "float" /\ number.halves % 2 = 0)
IntegerValue(number) == number.halves \div 2

C25_OnlyLastIteratorObserved ==
    [][is_queryset
         => /\ \A i \in 1 .. Len(iters) :
                  i # obs_iterator
                    => /\ ~iters[i].observed
                       /\ (pag_op' = "next" /\ iters'[i] # iters[i])
                             => /\ page_length' = page_length
                                /\ page_has_next' = page_has_next
                                /\ is_iterated' = is_iterated
            /\ obs_iterator = 0 => ~is_iterated
            /\ obs_iterator # 0
                  => /\ iters[obs_iterator].ended => is_iterated
                     /\ is_iterated
                           => iters[obs_iterator].pos = SliceLen(page_number)]_vars

\* The first iterator of a queryset page was drained by its consumer after a
\* second one was created: the page has counted nothing and is not iterated
C25_Witness_OldIteratorDrained ==
    /\ is_queryset
    /\ page_number # 0
    /\ obs_iterator = 2
    /\ iters[1].ended
    /\ Len(iters[1].got) > per_page
    /\ iters[2].pos = 0
    /\ page_length = 0
    /\ page_has_next = "None"
    /\ ~is_iterated

\* C27 as stated: page() and get_page() with a valid number read nothing of
\* the row source: they return a page whatever the rows are, and the page
\* has recorded nothing of them; out of range is found by the consumer.
C27_PageCreationReadsNothing ==
    (pag_op \in {"page", "get_page"} /\ RequestedPage >= 1)
        => /\ pag_result = "page"
           /\ page_length = 0
           /\ page_has_next = "None"

\* C27 as amended: on a queryset page() and get_page() read nothing: the page
\* is returned whatever the rows are, without an iterator and with nothing
\* recorded, and Http404 is raised when the consumer asks for an iterator. On
\* a list the slice is looked at when the page is made: a page beyond the
\* rows is refused there, and an empty first page knows it has no next page.
\* In both cases no row has been taken from the slice.
C27_QuerysetPageCreationReadsNothing ==
    (pag_op \in {"page", "get_page"} /\ RequestedPage >= 1)
        => IF is_queryset
           THEN /\ pag_result = "page"
                /\ iters = <<>>
                /\ obs_iterator = 0
                /\ page_length = 0
                /\ page_has_next = "None"
           ELSE /\ pag_result = "Http404"
                      <=> (RequestedPage > 1 /\ SliceLen(RequestedPage) = 0)
                /\ pag_result = "page"
                      => /\ iters[1].pos = 0
                         /\ page_length = 0
                         /\ page_has_next = IF SliceLen(page_number) = 0
                                            THEN "False" ELSE "None"

\* A page beyond the rows of a queryset was created without a failure
C27_Witness_QuerysetPageBeyondRows ==
    /\ pag_op \in {"page", "get_page"}
    /\ is_queryset
    /\ page_number > 1
    /\ SliceLen(page_number) = 0
    /\ pag_result = "page"
    /\ iters = <<>>

\* C29 as stated: the length of the page is between 0 and P and never goes
\* down, and the has-next flag is true only if an iterator of the page has
\* produced more than P rows.
C29_LengthBoundedAndMonotonic ==
    [][/\ page_length >= 0 /\ page_length <= per_page
       /\ page_length' >= page_length
       /\ page_has_next = "True"
             => \E i \in 1 .. Len(iters) : iters[i].number_returned > per_page]_vars

\* C29 as amended: the length of the page is between 0 and P, and the
\* has-next flag is true only if an iterator of the page has produced more
\* than P rows. The length does not go down while the page is read through
\* one iterator; it goes down only at the first pull on a further iterator
\* of a queryset page, where the count starts again.
C29_LengthBoundedAndMonotonicPerIterator ==
    [][/\ page_length >= 0 /\ page_length <= per_page
       /\ page_length' < page_length
             => /\ is_queryset
                /\ obs_iterator > 1
                /\ pag_op' = "next"
                /\ iters[obs_iterator].number_returned = 0
                /\ iters'[obs_iterator].number_returned > 0
       /\ page_has_next = "True"
             => \E i \in 1 .. Len(iters) : iters[i].number_returned > per_page]_vars

\* A full page of a queryset was read through a first iterator, which was
\* then abandoned: after the first pull on a second iterator the page has
\* length 1
C29_Witness_SecondIteratorRestartsCount ==
    /\ is_queryset
    /\ per_page = 2
    /\ obs_iterator = 2
    /\ ~iters[1].ended
    /\ iters[1].number_returned > per_page
    /\ iters[2].number_returned = 1
    /\ page_length = 1
    /\ page_has_next = "False"

\* C10 as stated: the total row count, num_pages and page_range all fail as
\* unsupported operations, in every state.
C10_EveryTotalUnsupported ==
    pag_op \in {"count", "num_pages", "page_range"}
        => pag_result = "NotImplementedError"

\* C10 as amended: num_pages and page_range fail as unsupported operations
\* in every state; the total row count is not overridden and is answered.
C10_PageTotalsUnsupported ==
    /\ pag_op \in {"num_pages", "page_range"} => pag_result = "NotImplementedError"
    /\ pag_op = "count" => pag_result = "int"

\* num_pages was asked of a paginator with a page in use, and refused
C10_Witness_NumPagesRefused ==
    /\ pag_op = "num_pages"
    /\ page_number # 0
    /\ rows > 0
    /\ pag_result = "NotImplementedError"


(***************************************************************************)
(*                 FIELD-ACCESS AUTHORIZATION ENGINE                       *)
(*                                                                         *)
(* A string is a sequence of tokens: a token is a run of characters that   *)
(* the code never looks inside ("base", "contains"), the suffix "Id", or   *)
(* one of the characters the code searches for: "." "[" "]" "," "-".       *)
(* "baseId" is <<"base", "Id">>, "base.id" is <<"base", ".", "id">> and    *)
(* the empty string is <<>>.                                               *)
(***************************************************************************)

\* str.find(ch): the 1-based index of the first ch in v, 0 when absent
Find(v, ch) ==
    IF \E i \in 1 .. Len(v) : v[i] = ch
    THEN CHOOSE i \in 1 .. Len(v) :
             v[i] = ch /\ \A j \in 1 .. (i - 1) : v[j] # ch
    ELSE 0

\* ch in v
Contains(v, ch) == \E i \in 1 .. Len(v) : v[i] = ch

\* v.endswith(ch) / v.startswith(ch)
EndsWith(v, ch) == Len(v) > 0 /\ v[Len(v)] = ch
StartsWith(v, ch) == Len(v) > 0 /\ v[1] = ch

\* v.split(ch, 1): the part before the first ch and the rest after it
\* ("" when there is no ch): part, field_name, *_ = *v.split(".", 1), ""
Split1(v, ch) ==
    LET i == Find(v, ch)
    IN  IF i = 0
        THEN [part |-> v, rest |-> <<>>]
        ELSE [part |-> SubSeq(v, 1, i - 1), rest |-> SubSeq(v, i + 1, Len(v))]

\* v.split(ch): all the parts
RECURSIVE SplitAll(_, _)
SplitAll(v, ch) ==
    LET i == Find(v, ch)
    IN  IF i = 0
        THEN <<v>>
        ELSE <<SubSeq(v, 1, i - 1)>> \o SplitAll(SubSeq(v, i + 1, Len(v)), ch)

\* ch.join(parts)
RECURSIVE Join(_, _)
Join(parts, ch) ==
    IF Len(parts) = 0 THEN <<>>
    ELSE IF Len(parts) = 1 THEN parts[1]
    ELSE parts[1] \o <<ch>> \o Join(Tail(parts), ch)

\* ---- the table schemas (schematools' DatasetTableSchema) ----------------
\* Three datasets in the shape of the tests' relationauth files: table
\* `refers` has a relation `base` to table `base`, whose identifier is
\* (id) in "simple" and "temporal" and (id, volgnr) in "composite". In
\* "temporal", refers is a temporal table with the dimension geldigOp.
SchemaVariants == {"simple", "composite", "temporal"}

TableFields(variant, table) ==
    IF table = "refers"
    THEN {<<"id">>, <<"name">>, <<"base">>, <<"reg", "Id">>}
           \cup (IF variant = "temporal" THEN {<<"begin">>, <<"eind">>} ELSE {})
    ELSE {<<"id">>, <<"volgnr">>}

\* DatasetTableSchema.identifier
Identifier(variant, table) ==
    IF table = "base" /\ variant = "composite"
    THEN << <<"id">>, <<"volgnr">> >>
    ELSE << <<"id">> >>

\* DatasetTableSchema.temporal.dimensions: name -> (start, end)
Dimensions(variant, table) ==
    IF variant = "temporal" /\ table = "refers"
    THEN {[name |-> <<"geldigOp">>, start |-> <<"begin">>, end |-> <<"eind">>]}
    ELSE {}

\* DatasetFieldSchema.related_table: the table a relation field points to, "" if none
related_table(variant, field) ==
    IF field.table = "refers" /\ field.id = <<"base">> THEN "base" ELSE ""

\* DatasetFieldSchema.related_field_ids: the identifier of the related table
related_field_ids(variant, field) == Identifier(variant, related_table(variant, field))

\* The scopes a field needs: its own auth, its table's and its dataset's.
\* In these datasets base.volgnr carries an auth of its own (BASE/VOLGNR), so
\* that the two components of the composite identifier are told apart.
ScopeTokens == {"REFERS", "REFERS/BASE", "BASE", "BASE/TABLE", "BASE/VOLGNR"}

FieldAuth(field) ==
    IF field.table = "refers"
    THEN IF field.id \in {<<"base">>, <<"eind">>}
         THEN {"REFERS", "REFERS/BASE"}
         ELSE {"REFERS"}
    ELSE IF field.id = <<"volgnr">>
         THEN {"BASE", "BASE/TABLE", "BASE/VOLGNR"}
         ELSE {"BASE", "BASE/TABLE"}

\* UserScopes.has_field_access: field access implies table and dataset access
has_field_access(scopes, field) == FieldAuth(field) \subseteq scopes

TableSchema(table) == [kind |-> "table", table |-> table, id |-> <<>>]
FieldSchema(table, id) == [kind |-> "field", table |-> table, id |-> id]

\* DatasetTableSchema.get_field_by_id / DatasetFieldSchema.get_field_by_id:
\* a table finds its fields, a scalar field has no sub-fields.
HasField(variant, schema, part) ==
    schema.kind = "table" /\ part \in TableFields(variant, schema.table)

\* ---- _check_field_access -------------------------------------------------

\* only the first related identifier field is checked
RelatedIdentsAccessible_first_only(variant, scopes, field) ==
    has_field_access(scopes, FieldSchema(related_table(variant, field),
                                         related_field_ids(variant, field)[1]))

\* lines 218-229: the related identifier fields are all checked
RelatedIdentsAccessible(variant, scopes, field) ==
    LET rel == related_table(variant, field)
        idents == related_field_ids(variant, field)
    IN  \A i \in 1 .. Len(idents) :
            has_field_access(scopes, FieldSchema(rel, idents[i]))

RECURSIVE check_field_access_loop(_, _, _, _)

\* the loop without the test on what follows an Id shorthand: the rest of the
\* path is appended to the identifier
check_field_access_loop_id_anywhere(field_name, scopes, variant, schema) ==
    IF field_name = <<>>
    THEN IF schema.kind = "table" THEN "FilterSyntaxError" ELSE "ok"
    ELSE LET sp == Split1(field_name, ".")
             part == sp.part
             rest == sp.rest
         IN  IF HasField(variant, schema, part)
             THEN LET field == FieldSchema(schema.table, part)
                      rel == related_table(variant, field)
                  IN  IF ~has_field_access(scopes, field)
                      THEN "PermissionDenied"
                      ELSE IF rel # ""
                           THEN IF ~RelatedIdentsAccessible(variant, scopes, field)
                                THEN "PermissionDenied"
                                ELSE check_field_access_loop(
                                         rest, scopes, variant, TableSchema(rel))
                           ELSE check_field_access_loop(rest, scopes, variant, field)
             ELSE IF EndsWith(part, "Id")
                  THEN LET base == SubSeq(part, 1, Len(part) - 1)
                       IN  IF ~HasField(variant, schema, base)
                           THEN "SchemaObjectNotFound"
                           ELSE LET field == FieldSchema(schema.table, base)
                                    rel == related_table(variant, field)
                                    idents == related_field_ids(variant, field)
                                IN  IF rel = ""
                                    THEN "SchemaObjectNotFound"
                                    ELSE check_field_access_loop(
                                             IF rest = <<>> THEN idents[1]
                                             ELSE idents[1] \o <<".">> \o rest,
                                             scopes, variant, TableSchema(rel))
                  ELSE "SchemaObjectNotFound"

\* the loop with a path that ends on a relation refused as a syntax error
\* before the related identifier is access-checked
check_field_access_loop_syntax_first(field_name, scopes, variant, schema) ==
    IF field_name = <<>>
    THEN IF schema.kind = "table" THEN "FilterSyntaxError" ELSE "ok"
    ELSE LET sp == Split1(field_name, ".")
             part == sp.part
             rest == sp.rest
         IN  IF HasField(variant, schema, part)
             THEN LET field == FieldSchema(schema.table, part)
                      rel == related_table(variant, field)
                  IN  IF ~has_field_access(scopes, field)
                      THEN "PermissionDenied"
                      ELSE IF rel # ""
                           THEN IF rest = <<>>
                                THEN "FilterSyntaxError"
                                ELSE IF ~RelatedIdentsAccessible(variant, scopes, field)
                                THEN "PermissionDenied"
                                ELSE check_field_access_loop(
                                         rest, scopes, variant, TableSchema(rel))
                           ELSE check_field_access_loop(rest, scopes, variant, field)
             ELSE IF EndsWith(part, "Id")
                  THEN LET base == SubSeq(part, 1, Len(part) - 1)
                       IN  IF rest # <<>>
                           THEN "FilterSyntaxError"
                           ELSE IF ~HasField(variant, schema, base)
                                THEN "SchemaObjectNotFound"
                                ELSE LET field == FieldSchema(schema.table, base)
                                         rel == related_table(variant, field)
                                         idents == related_field_ids(variant, field)
                                     IN  IF rel = ""
                                         THEN "SchemaObjectNotFound"
                                         ELSE check_field_access_loop(
                                                  idents[1], scopes, variant,
                                                  TableSchema(rel))
                  ELSE "SchemaObjectNotFound"

\* the while loop of _check_field_access and the test that follows it
check_field_access_loop(field_name, scopes, variant, schema) ==
    IF field_name = <<>>
    THEN IF schema.kind = "table" THEN "FilterSyntaxError" ELSE "ok"
    ELSE LET sp == Split1(field_name, ".")
             part == sp.part
             rest == sp.rest
         IN  IF HasField(variant, schema, part)
             THEN LET field == FieldSchema(schema.table, part)
                      rel == related_table(variant, field)
                  IN  IF ~has_field_access(scopes, field)
                      THEN "PermissionDenied"
                      ELSE IF rel # ""
                           THEN IF ~RelatedIdentsAccessible(variant, scopes, field)
                                THEN "PermissionDenied"
                                ELSE check_field_access_loop(
                                         rest, scopes, variant, TableSchema(rel))
                           ELSE check_field_access_loop(rest, scopes, variant, field)
             ELSE IF EndsWith(part, "Id")
                  THEN LET base == SubSeq(part, 1, Len(part) - 1)
                       IN  IF rest # <<>>
                           THEN "FilterSyntaxError"
                           ELSE IF ~HasField(variant, schema, base)
                                THEN "SchemaObjectNotFound"
                                ELSE LET field == FieldSchema(schema.table, base)
                                         rel == related_table(variant, field)
                                         idents == related_field_ids(variant, field)
                                     IN  IF rel = ""
                                         THEN "SchemaObjectNotFound"
                                         ELSE check_field_access_loop(
                                                  idents[1], scopes, variant,
                                                  TableSchema(rel))
                  ELSE "SchemaObjectNotFound"

\* _check_field_access(full_field_name, scopes, schema) on table `refers`
check_field_access(full_field_name, scopes, variant) ==
    check_field_access_loop(full_field_name, scopes, variant, TableSchema("refers"))


\* ---- parse_filter --------------------------------------------------------

\* parse_filter with the operator cut one position early: it keeps the "["
parse_filter_keeps_bracket(v) ==
    LET bracket == Find(v, "[")
    IN  IF bracket = 0
        THEN IF Contains(v, "]")
             THEN [raised |-> "FilterSyntaxError", field_name |-> <<>>, op |-> <<>>]
             ELSE [raised |-> "none", field_name |-> v, op |-> <<"exact">>]
        ELSE IF ~EndsWith(v, "]")
             THEN [raised |-> "FilterSyntaxError", field_name |-> <<>>, op |-> <<>>]
             ELSE [raised |-> "none",
                   field_name |-> SubSeq(v, 1, bracket - 1),
                   op |-> SubSeq(v, bracket, Len(v) - 1)]

\* parse_filter without the test for a closing bracket that was never opened
parse_filter_no_close_test(v) ==
    LET bracket == Find(v, "[")
    IN  IF bracket = 0
        THEN [raised |-> "none", field_name |-> v, op |-> <<"exact">>]
        ELSE IF ~EndsWith(v, "]")
             THEN [raised |-> "FilterSyntaxError", field_name |-> <<>>, op |-> <<>>]
             ELSE [raised |-> "none",
                   field_name |-> SubSeq(v, 1, bracket - 1),
                   op |-> SubSeq(v, bracket + 1, Len(v) - 1)]

parse_filter(v) ==
    LET bracket == Find(v, "[")
    IN  IF bracket = 0
        THEN IF Contains(v, "]")
             THEN [raised |-> "FilterSyntaxError", field_name |-> <<>>, op |-> <<>>]
             ELSE [raised |-> "none", field_name |-> v, op |-> <<"exact">>]
        ELSE IF ~EndsWith(v, "]")
             THEN [raised |-> "FilterSyntaxError", field_name |-> <<>>, op |-> <<>>]
             ELSE [raised |-> "none",
                   field_name |-> SubSeq(v, 1, bracket - 1),
                   op |-> SubSeq(v, bracket + 1, Len(v) - 1)]

\* ---- validate_request ----------------------------------------------------

\* the first exception of a sequence of outcomes, "ok" when there is none
RECURSIVE FirstFailure(_)
FirstFailure(outcomes) ==
    IF Len(outcomes) = 0 THEN "ok"
    ELSE IF Head(outcomes) # "ok" THEN Head(outcomes)
    ELSE FirstFailure(Tail(outcomes))

\* Flatten a sequence of sequences
RECURSIVE Flatten(_)
Flatten(ss) == IF Len(ss) = 0 THEN <<>> ELSE Head(ss) \o Flatten(Tail(ss))

\* lines 147-149: mandatory.update(*profile.mandatory_filtersets) over the
\* profiles that scopes.get_active_profile_tables(dataset, table) returns
MandatoryFilters(profiles) ==
    UNION {UNION {profiles[i][j] : j \in 1 .. Len(profiles[i])} :
               i \in 1 .. Len(profiles)}

\* a sort parameter of which only the first value is checked
check_sort_first_value(values, scopes, variant) ==
    LET fields == IF Len(values) = 0 THEN <<>> ELSE SplitAll(values[1], ",")
        stripped(f) == IF StartsWith(f, "-") THEN Tail(f) ELSE f
    IN  FirstFailure([i \in 1 .. Len(fields) |->
            check_field_access(stripped(fields[i]), scopes, variant)])

\* lines 155-161: the fields of a sort parameter
check_sort(values, scopes, variant) ==
    LET fields == Flatten([i \in 1 .. Len(values) |-> SplitAll(values[i], ",")])
        stripped(f) == IF StartsWith(f, "-") THEN Tail(f) ELSE f
    IN  FirstFailure([i \in 1 .. Len(fields) |->
            check_field_access(stripped(fields[i]), scopes, variant)])

\* a filter parameter of which only the start field of a dimension is checked
check_filter_start_only(key, mandatory, scopes, variant) ==
    LET parsed == parse_filter(key)
        field_name == parsed.field_name
        dims == {d \in Dimensions(variant, "refers") : d.name = field_name}
    IN  IF parsed.raised # "none" THEN parsed.raised
        ELSE IF key \in mandatory \/ field_name \in mandatory THEN "ok"
        ELSE IF dims # {}
             THEN LET d == CHOOSE d \in dims : TRUE
                  IN  check_field_access(d.start, scopes, variant)
             ELSE check_field_access(field_name, scopes, variant)

\* a filter parameter checked without looking at the mandatory filters
check_filter_no_bypass(key, mandatory, scopes, variant) ==
    LET parsed == parse_filter(key)
        field_name == parsed.field_name
        dims == {d \in Dimensions(variant, "refers") : d.name = field_name}
    IN  IF parsed.raised # "none" THEN parsed.raised
        ELSE IF dims # {}
             THEN LET d == CHOOSE d \in dims : TRUE
                  IN  FirstFailure(<<check_field_access(d.start, scopes, variant),
                                     check_field_access(d.end, scopes, variant)>>)
             ELSE check_field_access(field_name, scopes, variant)

\* a filter parameter tested against the mandatory filters before it is parsed
check_filter_bypass_first(key, mandatory, scopes, variant) ==
    LET parsed == parse_filter(key)
        field_name == parsed.field_name
        dims == {d \in Dimensions(variant, "refers") : d.name = field_name}
    IN  IF key \in mandatory THEN "ok"
        ELSE IF parsed.raised # "none" THEN parsed.raised
        ELSE IF field_name \in mandatory THEN "ok"
        ELSE IF dims # {}
             THEN LET d == CHOOSE d \in dims : TRUE
                  IN  FirstFailure(<<check_field_access(d.start, scopes, variant),
                                     check_field_access(d.end, scopes, variant)>>)
             ELSE check_field_access(field_name, scopes, variant)

\* lines 163-177: a filter parameter
check_filter(key, mandatory, scopes, variant) ==
    LET parsed == parse_filter(key)
        field_name == parsed.field_name
        dims == {d \in Dimensions(variant, "refers") : d.name = field_name}
    IN  IF parsed.raised # "none" THEN parsed.raised
        ELSE IF key \in mandatory \/ field_name \in mandatory THEN "ok"
        ELSE IF dims # {}
             THEN LET d == CHOOSE d \in dims : TRUE
                  IN  FirstFailure(<<check_field_access(d.start, scopes, variant),
                                     check_field_access(d.end, scopes, variant)>>)
             ELSE check_field_access(field_name, scopes, variant)

\* lines 151-177: one (key, values) pair of request.GET.lists()
check_param(param, allowed, mandatory, scopes, variant) ==
    IF param.key \in allowed THEN "ok"
    ELSE IF param.key = <<"_sort">> \/ param.key = <<"sorteer">>
         THEN check_sort(param.values, scopes, variant)
         ELSE check_filter(param.key, mandatory, scopes, variant)

\* validate_request with the dataset exemption tested before the method
validate_request_exempt_first(request, variant, allowed) ==
    IF request.method = "OPTIONS" THEN "ok"
    ELSE IF request.dataset = "bbga" THEN "ok"
    ELSE IF request.method # "GET" THEN "PermissionDenied"
    ELSE LET mandatory == MandatoryFilters(request.profiles)
         IN  FirstFailure([i \in 1 .. Len(request.GET) |->
                 check_param(request.GET[i], allowed, mandatory,
                             request.user_scopes, variant)])

\* validate_request(request, schema, allowed) for table `refers` of `variant`.
\* The request carries method, GET (a sequence of (key, values)), user_scopes
\* and the active profiles of user_scopes; dataset is schema.dataset.id.
validate_request(request, variant, allowed) ==
    IF request.method = "OPTIONS" THEN "ok"
    ELSE IF request.method # "GET" THEN "PermissionDenied"
    ELSE IF request.dataset = "bbga" THEN "ok"
    ELSE LET mandatory == MandatoryFilters(request.profiles)
         IN  FirstFailure([i \in 1 .. Len(request.GET) |->
                 check_param(request.GET[i], allowed, mandatory,
                             request.user_scopes, variant)])


\* ---- the calls made on the authorization engine ---------------------------

\* Path segments: a name, or a name with the "Id" suffix
SegmentNames == {<<>>, <<"base">>, <<"name">>, <<"id">>, <<"volgnr">>, <<"reg">>}
Segments == SegmentNames \cup {n \o <<"Id">> : n \in SegmentNames}

\* The dotted paths of at most k segments
Paths(k) ==
    {Join(ss, ".") : ss \in UNION {[1 .. m -> Segments] : m \in 1 .. k}}

NoCall == [fn |-> "none"]

InitAuth ==
    /\ auth_call = NoCall
    /\ auth_result = "none"

\* A direct call of _check_field_access, as the tests make it
CheckFieldAccessCall ==
    /\ auth_call = NoCall
    /\ UNCHANGED <<pagVars, facVars, urlVars>>
    /\ \E path \in Paths(MaxSegs), scopes \in SUBSET ScopeTokens,
          variant \in {"simple", "composite"} :
        /\ auth_call' = [fn |-> "_check_field_access", field_name |-> path,
                         scopes |-> scopes, variant |-> variant]
        /\ auth_result' = check_field_access(path, scopes, variant)

NextWalk == CheckFieldAccessCall

\* The keys handed to parse_filter: every string of at most MaxKeyLen tokens
\* over two names and the two brackets
KeyTokens == {"foo", "contains", "[", "]"}
ParseKeys == UNION {[1 .. m -> KeyTokens] : m \in 0 .. MaxKeyLen}

\* A direct call of parse_filter; auth_result is what it returned or raised
ParseFilterCall ==
    /\ auth_call = NoCall
    /\ UNCHANGED <<pagVars, facVars, urlVars>>
    /\ \E v \in ParseKeys :
        /\ auth_call' = [fn |-> "parse_filter", v |-> v]
        /\ auth_result' = parse_filter(v)

NextParse == ParseFilterCall

\* ---- filter_unauthorized_expands -----------------------------------------
\* An EmbeddedFieldMatch is a record: its name, what the scopes answer for
\* its relation field (has_field_access) and for its related table
\* (has_table_access), whether it has a nested_expand_scope, whether its
\* embedded_serializer is an ExpandableSerializer, and the expanded fields
\* of that serializer.
Match(name, field_perm, table_perm, scope, expandable, expanded_fields) ==
    [name |-> name, field_perm |-> field_perm, table_perm |-> table_perm,
     nested_expand_scope |-> scope, expandable |-> expandable,
     expanded_fields |-> expanded_fields]

ExpandsOk(result) == [raised |-> "none", result |-> result]
ExpandsDenied == [raised |-> "PermissionDenied", result |-> <<>>]

\* filter_unauthorized_expands that asks for access to the relation field only
RECURSIVE filter_unauthorized_expands_field_only(_, _)
filter_unauthorized_expands_field_only(expanded_fields, skip_unauth) ==
    IF Len(expanded_fields) = 0 THEN ExpandsOk(<<>>)
    ELSE LET match == Head(expanded_fields)
         IN  IF match.field_perm
             THEN LET nested ==
                          IF ~skip_unauth /\ match.nested_expand_scope
                                 /\ match.expandable
                          THEN filter_unauthorized_expands_field_only(
                                   match.expanded_fields, skip_unauth)
                          ELSE ExpandsOk(<<>>)
                      rest == filter_unauthorized_expands_field_only(
                                  Tail(expanded_fields), skip_unauth)
                  IN  IF nested.raised # "none" THEN ExpandsDenied
                      ELSE IF rest.raised # "none" THEN rest
                      ELSE ExpandsOk(<<match>> \o rest.result)
             ELSE IF skip_unauth
                  THEN filter_unauthorized_expands_field_only(
                           Tail(expanded_fields), skip_unauth)
                  ELSE ExpandsDenied

\* filter_unauthorized_expands(user_scopes, expanded_fields, skip_unauth)
RECURSIVE filter_unauthorized_expands(_, _)
filter_unauthorized_expands(expanded_fields, skip_unauth) ==
    IF Len(expanded_fields) = 0 THEN ExpandsOk(<<>>)
    ELSE LET match == Head(expanded_fields)
         IN  IF match.field_perm /\ match.table_perm
             THEN LET nested ==
                          IF ~skip_unauth /\ match.nested_expand_scope
                                 /\ match.expandable
                          THEN filter_unauthorized_expands(
                                   match.expanded_fields, skip_unauth)
                          ELSE ExpandsOk(<<>>)
                      rest == filter_unauthorized_expands(
                                  Tail(expanded_fields), skip_unauth)
                  IN  IF nested.raised # "none" THEN ExpandsDenied
                      ELSE IF rest.raised # "none" THEN rest
                      ELSE ExpandsOk(<<match>> \o rest.result)
             ELSE IF skip_unauth
                  THEN filter_unauthorized_expands(Tail(expanded_fields), skip_unauth)
                  ELSE ExpandsDenied

\* The expanded fields of an embedded serializer: none, one that is
\* accessible, one that is not
NestedMatches ==
    {<<>>,
     <<Match("sub", TRUE, TRUE, FALSE, FALSE, <<>>)>>,
     <<Match("sub", TRUE, FALSE, FALSE, FALSE, <<>>)>>}

\* The matches of a request: the serializer of an expanded field is an
\* ExpandableSerializer with expanded fields of its own, or a plain one
MatchInputs ==
    {Match(name, field_perm, table_perm, scope, TRUE, nested) :
        name \in {"a", "b"}, field_perm \in BOOLEAN, table_perm \in BOOLEAN,
        scope \in BOOLEAN, nested \in NestedMatches}
      \cup {Match(name, field_perm, table_perm, scope, FALSE, <<>>) :
               name \in {"a", "b"}, field_perm \in BOOLEAN,
               table_perm \in BOOLEAN, scope \in BOOLEAN}

ExpandInputs == UNION {[1 .. m -> MatchInputs] : m \in 0 .. MaxExpands}

\* A serializer filters its expanded fields
FilterExpandsCall ==
    /\ auth_call = NoCall
    /\ UNCHANGED <<pagVars, facVars, urlVars>>
    /\ \E expanded_fields \in ExpandInputs, skip_unauth \in BOOLEAN :
        /\ auth_call' = [fn |-> "filter_unauthorized_expands",
                         expanded_fields |-> expanded_fields,
                         skip_unauth |-> skip_unauth]
        /\ auth_result' = filter_unauthorized_expands(expanded_fields, skip_unauth)

NextExpand == FilterExpandsCall

\* The profiles that get_active_profile_tables returns: each profile is its
\* mandatory_filtersets, a sequence of sets of filter names
ProfileInputs ==
    { <<>>,
      << << {<<"name">>} >> >>,
      << << {<<"name", "[", "contains", "]">>} >> >>,
      << << {<<"base">>, <<"reg">>} >> >>,
      << << {<<"name", "]">>, <<"name", "[", "contains">>} >> >>,
      << << {<<"name">>} >>, << {<<"volgnr">>}, {<<"base">>} >> >> }

BracketSuffixes ==
    {<<>>, <<"[", "contains", "]">>, <<"]">>, <<"[", "contains">>,
     <<"[", "[", "contains", "]">>}

FilterKeys ==
    {path \o suffix :
        path \in Paths(MaxKeySegs) \cup {<<"geldigOp">>, <<"begin">>, <<"eind">>},
        suffix \in BracketSuffixes}

\* the fields of a sort value: empty, known, a relation, a dotted path,
\* unknown, and a name that itself starts with the descending marker
SortFields ==
    {<<>>, <<"name">>, <<"base">>, <<"base", ".", "id">>, <<"reg">>,
     <<"-", "name">>}
SortItems == SortFields \cup {<<"-">> \o f : f \in SortFields}
SortValues ==
    {Join(items, ",") :
        items \in UNION {[1 .. m -> SortItems] : m \in 1 .. MaxSortKeys}}

AllowedDefault == {<<"_format">>, <<"page">>}

Param(key, values) == [key |-> key, values |-> values]

Request(method, dataset, params, scopes, profiles) ==
    [method |-> method, dataset |-> dataset, GET |-> params,
     user_scopes |-> scopes, profiles |-> profiles]

\* GET requests with one filter parameter
FilterRequests ==
    {Request("GET", "relationauth", <<Param(key, << <<"x">> >>)>>, scopes, profiles) :
        key \in FilterKeys, scopes \in SUBSET ScopeTokens, profiles \in ProfileInputs}

\* GET requests with one sort parameter of one or two values
SortRequests ==
    {Request("GET", "relationauth", <<Param(key, values)>>, scopes, profiles) :
        key \in {<<"_sort">>, <<"sorteer">>},
        values \in {<<v>> : v \in SortValues}
                     \cup {<<v, w>> : v \in SortItems, w \in SortItems},
        scopes \in SUBSET ScopeTokens,
        profiles \in {<<>>, << << {<<"name">>} >> >>} }

\* Requests of any method on any dataset, with or without allowed parameters
MethodRequests ==
    {Request(method, dataset, params, scopes, <<>>) :
        method \in {"GET", "OPTIONS", "POST", "DELETE"},
        dataset \in {"relationauth", "bbga"},
        params \in { <<>>,
                     <<Param(<<"name">>, << <<"x">> >>)>>,
                     <<Param(<<"name", "]">>, << <<"x">> >>)>>,
                     <<Param(<<"_format">>, << <<"json">> >>)>>,
                     <<Param(<<"_format">>, << <<"json">> >>),
                       Param(<<"name">>, << <<"x">> >>)>>,
                     <<Param(<<"_sort">>, << <<"name">> >>)>> },
        scopes \in {{}, ScopeTokens} }

\* A view calls validate_request on its table
DoValidate(request, variant, allowed) ==
    /\ auth_call' = [fn |-> "validate_request", request |-> request,
                     variant |-> variant, allowed |-> allowed]
    /\ auth_result' = validate_request(request, variant, allowed)

ValidateFilterCall ==
    /\ auth_call = NoCall
    /\ UNCHANGED <<pagVars, facVars, urlVars>>
    /\ \E request \in FilterRequests, variant \in SchemaVariants :
           DoValidate(request, variant, AllowedDefault)

ValidateSortCall ==
    /\ auth_call = NoCall
    /\ UNCHANGED <<pagVars, facVars, urlVars>>
    /\ \E request \in SortRequests :
           DoValidate(request, "simple", AllowedDefault)

ValidateMethodCall ==
    /\ auth_call = NoCall
    /\ UNCHANGED <<pagVars, facVars, urlVars>>
    /\ \E request \in MethodRequests, variant \in SchemaVariants,
          allowed \in {AllowedDefault, AllowedDefault \cup {<<"_sort">>}} :
           DoValidate(request, variant, allowed)

NextValidate ==
    \/ ValidateFilterCall
    \/ ValidateSortCall
    \/ ValidateMethodCall


(***************************************************************************)
(* Properties of the authorization engine: of the walk under SpecWalk, of  *)
(* validate_request under SpecValidate.                                    *)
(***************************************************************************)

\* The walk that the path names, hop by hop from `schema`, without any access
\* test: whether every segment resolves, the fields resolved on the way (each
\* field named, and every identifier component of each related table
\* entered) and the schema the path ends on.
RECURSIVE HopWalk(_, _, _, _)
HopWalk(segments, variant, schema, fields) ==
    IF Len(segments) = 0
    THEN [resolved |-> TRUE, fields |-> fields, end |-> schema]
    ELSE LET seg == Head(segments)
             named == FieldSchema(schema.table, seg)
             base == FieldSchema(schema.table, SubSeq(seg, 1, Len(seg) - 1))
             idents(f) ==
                 {FieldSchema(related_table(variant, f), related_field_ids(variant, f)[i]) :
                      i \in 1 .. Len(related_field_ids(variant, f))}
             unresolved == [resolved |-> FALSE, fields |-> fields, end |-> schema]
         IN  IF HasField(variant, schema, seg)
             THEN IF related_table(variant, named) # ""
                  THEN HopWalk(Tail(segments), variant,
                               TableSchema(related_table(variant, named)),
                               fields \cup {named} \cup idents(named))
                  ELSE HopWalk(Tail(segments), variant, named, fields \cup {named})
             ELSE IF /\ EndsWith(seg, "Id")
                     /\ Len(segments) = 1
                     /\ HasField(variant, schema, base.id)
                     /\ related_table(variant, base) # ""
                  THEN [resolved |-> TRUE,
                        fields |-> fields \cup {base} \cup idents(base),
                        end |-> FieldSchema(related_table(variant, base),
                                            related_field_ids(variant, base)[1])]
                  ELSE unresolved

\* The segments of a dotted path, one per hop: the path is consumed up to
\* its next "." until nothing is left
RECURSIVE PathSegments(_)
PathSegments(path) ==
    IF path = <<>> THEN <<>>
    ELSE <<Split1(path, ".").part>> \o PathSegments(Split1(path, ".").rest)

\* The walk of a dotted path from table `refers`
PathWalk(path, variant) ==
    HopWalk(PathSegments(path), variant, TableSchema("refers"), {})

\* C2: _check_field_access succeeds if and only if the path resolves, every
\* field resolved on the hop-by-hop walk (each named field, each relation
\* field named, every identifier component of each related table entered) is
\* accessible to the scopes, and the path ends on a concrete field.
C2_WalkSucceedsIffAllAccessible ==
    auth_call.fn = "_check_field_access"
        => LET w == PathWalk(auth_call.field_name, auth_call.variant)
           IN  (auth_result = "ok")
                   <=> /\ w.resolved
                       /\ \A f \in w.fields : has_field_access(auth_call.scopes, f)
                       /\ w.end.kind = "field"

\* C3: with the single-component identifier `id` of the related table, the
\* paths "baseId" and "base.id" have the same outcome for every scope set.
C3_ShorthandAsDotted ==
    (/\ auth_call.fn = "_check_field_access"
     /\ auth_call.variant = "simple"
     /\ auth_call.field_name = <<"base", "Id">>)
        => auth_result = check_field_access(<<"base", ".", "id">>,
                                            auth_call.scopes, "simple")

\* C14: when the walk reaches a segment that is not a field of the current
\* scope and ends with "Id", and more of the path follows it, the call fails
\* with FilterSyntaxError, whatever the scopes allow beyond the hops that
\* lead there and whether or not the base relation exists.
C14_ShorthandOnlyAtTheEnd ==
    auth_call.fn = "_check_field_access"
        => LET segs == PathSegments(auth_call.field_name)
           IN  \A i \in 1 .. (Len(segs) - 1) :
                   LET w == HopWalk(SubSeq(segs, 1, i - 1), auth_call.variant,
                                    TableSchema("refers"), {})
                   IN  (/\ w.resolved
                        /\ \A f \in w.fields : has_field_access(auth_call.scopes, f)
                        /\ ~HasField(auth_call.variant, w.end, segs[i])
                        /\ EndsWith(segs[i], "Id"))
                           => auth_result = "FilterSyntaxError"

\* "baseId.id" with every scope granted was refused as a syntax error
C14_Witness_ShorthandThenSegment ==
    /\ auth_call.fn = "_check_field_access"
    /\ auth_call.field_name = <<"base", "Id", ".", "id">>
    /\ auth_call.scopes = ScopeTokens
    /\ auth_result = "FilterSyntaxError"

\* C18: when the first segment of the path names a relation field, the walk
\* denies access unless the scopes grant the relation field and every
\* component of the related table's identifier, whatever follows in the
\* path; "base.id" and "base.volgnr" succeed exactly when all of them, and
\* the field named (itself a component when the identifier is (id, volgnr)),
\* are granted.
C18_EveryIdentifierComponentChecked ==
    auth_call.fn = "_check_field_access"
        => LET segs == PathSegments(auth_call.field_name)
               variant == auth_call.variant
               relation == FieldSchema("refers", segs[1])
               granted ==
                   /\ has_field_access(auth_call.scopes, relation)
                   /\ \A i \in 1 .. Len(related_field_ids(variant, relation)) :
                          has_field_access(
                              auth_call.scopes,
                              FieldSchema(related_table(variant, relation),
                                          related_field_ids(variant, relation)[i]))
           IN  (/\ Len(segs) >= 1
                /\ HasField(variant, TableSchema("refers"), segs[1])
                /\ related_table(variant, relation) # "")
                   => /\ ~granted => auth_result = "PermissionDenied"
                      /\ \A name \in {<<"id">>, <<"volgnr">>} :
                            auth_call.field_name = segs[1] \o <<".">> \o name
                              => (auth_result = "ok"
                                    <=> /\ granted
                                        /\ has_field_access(
                                               auth_call.scopes,
                                               FieldSchema(related_table(variant, relation),
                                                           name)))

\* With the identifier (id, volgnr), "base.id" was denied to scopes that
\* grant everything but volgnr
C18_Witness_UnnamedComponentDenied ==
    /\ auth_call.fn = "_check_field_access"
    /\ auth_call.variant = "composite"
    /\ auth_call.field_name = <<"base", ".", "id">>
    /\ auth_call.scopes = ScopeTokens \ {"BASE/VOLGNR"}
    /\ auth_result = "PermissionDenied"

BracketFree(v) == ~Contains(v, "[") /\ ~Contains(v, "]")

\* C12: parse_filter maps every bracket-free key k to (k, "exact") and every
\* key f[op] with f and op bracket-free to (f, op).
C12_ParseFilterResult ==
    auth_call.fn = "parse_filter"
        => LET v == auth_call.v
           IN  /\ BracketFree(v)
                    => auth_result = [raised |-> "none", field_name |-> v,
                                      op |-> <<"exact">>]
               /\ \A i \in 1 .. Len(v) :
                     (/\ v[i] = "["
                      /\ v[Len(v)] = "]"
                      /\ BracketFree(SubSeq(v, 1, i - 1))
                      /\ BracketFree(SubSeq(v, i + 1, Len(v) - 1)))
                        => auth_result =
                               [raised |-> "none",
                                field_name |-> SubSeq(v, 1, i - 1),
                                op |-> SubSeq(v, i + 1, Len(v) - 1)]

\* parse_filter("foo[contains]") returned (foo, contains)
C12_Witness_FieldAndOperator ==
    /\ auth_call.fn = "parse_filter"
    /\ auth_call.v = <<"foo", "[", "contains", "]">>
    /\ auth_result.raised = "none"
    /\ auth_result.field_name = <<"foo">>
    /\ auth_result.op = <<"contains">>

\* The nesting depth of the brackets after each prefix of v: "[" opens, "]"
\* closes; -1 once a "]" closes what was never opened
RECURSIVE BracketDepth(_, _)
BracketDepth(v, depth) ==
    IF depth < 0 THEN -1
    ELSE IF v = <<>> THEN depth
    ELSE BracketDepth(Tail(v), IF Head(v) = "[" THEN depth + 1
                               ELSE IF Head(v) = "]" THEN depth - 1
                               ELSE depth)
Balanced(v) == BracketDepth(v, 0) = 0

\* C13 as stated: parse_filter fails with FilterSyntaxError for every key
\* whose square brackets are unbalanced in number or nesting.
C13_UnbalancedIsSyntaxError ==
    (auth_call.fn = "parse_filter" /\ ~Balanced(auth_call.v))
        => auth_result.raised = "FilterSyntaxError"

\* C13 as amended: parse_filter fails with FilterSyntaxError exactly for a
\* key with a closing bracket and no opening one, and for a key with an
\* opening bracket that does not end with a closing bracket.
C13_SyntaxErrorCases ==
    auth_call.fn = "parse_filter"
        => LET v == auth_call.v
           IN  (auth_result.raised = "FilterSyntaxError")
                   <=> \/ ~Contains(v, "[") /\ Contains(v, "]")
                       \/ Contains(v, "[") /\ ~EndsWith(v, "]")

\* parse_filter("foo]") failed
C13_Witness_CloseWithoutOpen ==
    /\ auth_call.fn = "parse_filter"
    /\ auth_call.v = <<"foo", "]">>
    /\ auth_result.raised = "FilterSyntaxError"

\* C15: validate_request passes OPTIONS without validation and fails with
\* PermissionDenied for every other method than GET, whatever the
\* parameters, the scopes, the profiles and the dataset are.
C15_NonReadMethodRejected ==
    auth_call.fn = "validate_request"
        => /\ auth_call.request.method \notin {"GET", "OPTIONS"}
                => auth_result = "PermissionDenied"
           /\ auth_call.request.method = "OPTIONS" => auth_result = "ok"

\* A POST on the exempted dataset, with every scope and only an allowed
\* parameter, was refused
C15_Witness_PostOnExemptDataset ==
    /\ auth_call.fn = "validate_request"
    /\ auth_call.request.method = "POST"
    /\ auth_call.request.dataset = "bbga"
    /\ auth_call.request.user_scopes = ScopeTokens
    /\ Len(auth_call.request.GET) = 1
    /\ auth_call.request.GET[1].key \in auth_call.allowed
    /\ auth_result = "PermissionDenied"

\* The one filter parameter of a request that validate_request classifies as
\* a filter: a GET on a dataset that is checked, the key not allowed and no
\* sort directive, and the key well-formed
IsFilterRequest(c) ==
    /\ c.fn = "validate_request"
    /\ c.request.method = "GET"
    /\ c.request.dataset # "bbga"
    /\ Len(c.request.GET) = 1
    /\ c.request.GET[1].key \notin c.allowed
    /\ c.request.GET[1].key \notin {<<"_sort">>, <<"sorteer">>}
    /\ parse_filter(c.request.GET[1].key).raised = "none"

\* The filter is one of the mandatory filters of an active profile: by its
\* field name or by its complete key
IsMandatoryFilter(c) ==
    LET key == c.request.GET[1].key
        mandatory == MandatoryFilters(c.request.profiles)
    IN  key \in mandatory \/ parse_filter(key).field_name \in mandatory

\* C4: validate_request accepts a filter whose field name or complete key is
\* in the mandatory filter set of an active profile, whatever the scopes.
C4_MandatoryFilterAccepted ==
    (IsFilterRequest(auth_call) /\ IsMandatoryFilter(auth_call))
        => auth_result = "ok"

\* A mandatory filter on a field the scopes give no access to was accepted
C4_Witness_AcceptedWithoutAccess ==
    /\ IsFilterRequest(auth_call)
    /\ IsMandatoryFilter(auth_call)
    /\ auth_call.request.user_scopes = {}
    /\ check_field_access(parse_filter(auth_call.request.GET[1].key).field_name,
                          {}, auth_call.variant) = "PermissionDenied"
    /\ auth_result = "ok"

\* C20: on a temporal table, a filter (not a mandatory one) whose field name
\* is a dimension of the table is accepted exactly when the walk passes for
\* the start field and for the end field of the dimension; the first of the
\* two that fails gives the error, and the name of the dimension is not
\* looked up as a field.
C20_DimensionCheckedByItsBounds ==
    (/\ IsFilterRequest(auth_call)
     /\ ~IsMandatoryFilter(auth_call))
        => LET variant == auth_call.variant
               scopes == auth_call.request.user_scopes
               field_name == parse_filter(auth_call.request.GET[1].key).field_name
           IN  \A d \in Dimensions(variant, "refers") :
                   d.name = field_name
                     => LET start == check_field_access(d.start, scopes, variant)
                            end == check_field_access(d.end, scopes, variant)
                        IN  /\ auth_result = "ok" <=> (start = "ok" /\ end = "ok")
                            /\ auth_result = IF start # "ok" THEN start ELSE end
                            /\ auth_result # "SchemaObjectNotFound"
                            /\ check_field_access(field_name, scopes, variant)
                                   = "SchemaObjectNotFound"

\* A filter on geldigOp was denied to scopes that open the start field but
\* not the end field
C20_Witness_EndFieldDenied ==
    /\ IsFilterRequest(auth_call)
    /\ ~IsMandatoryFilter(auth_call)
    /\ auth_call.variant = "temporal"
    /\ parse_filter(auth_call.request.GET[1].key).field_name = <<"geldigOp">>
    /\ check_field_access(<<"begin">>, auth_call.request.user_scopes, "temporal") = "ok"
    /\ check_field_access(<<"eind">>, auth_call.request.user_scopes, "temporal")
           = "PermissionDenied"
    /\ auth_result = "PermissionDenied"


\* The one sort directive of a request that validate_request checks: a GET
\* on a dataset that is checked, the key a sort key and not allowed
IsSortRequest(c) ==
    /\ c.fn = "validate_request"
    /\ c.request.method = "GET"
    /\ c.request.dataset # "bbga"
    /\ Len(c.request.GET) = 1
    /\ c.request.GET[1].key \notin c.allowed
    /\ c.request.GET[1].key \in {<<"_sort">>, <<"sorteer">>}

\* a sort key without its one optional leading descending marker
SortKeyField(k) == IF Len(k) > 0 /\ k[1] = "-" THEN SubSeq(k, 2, Len(k)) ELSE k

\* the outcomes of the walk that a filter field takes, for the sort keys of a
\* sort request: one per comma-separated key of each supplied value
SortKeyOutcomes(c) ==
    LET values == c.request.GET[1].values
        keys(i) == SplitAll(values[i], ",")
    IN  UNION {{check_field_access(SortKeyField(keys(i)[j]),
                                   c.request.user_scopes, c.variant) :
                    j \in 1 .. Len(keys(i))} :
               i \in 1 .. Len(values)}

\* C21: a sort directive is accepted exactly when every comma-separated key
\* of every value, without one leading "-", passes the access walk that a
\* filter field takes; otherwise validation fails with the error of one of
\* the keys, so an inaccessible, an unknown and an empty key all fail.
C21_SortKeysWalked ==
    IsSortRequest(auth_call)
        => /\ auth_result = "ok" <=> SortKeyOutcomes(auth_call) \subseteq {"ok"}
           /\ auth_result # "ok" => auth_result \in SortKeyOutcomes(auth_call)

\* A sort directive of two values was denied for a descending key of its
\* second value, the first value being accessible
C21_Witness_SecondValueDenied ==
    /\ IsSortRequest(auth_call)
    /\ Len(auth_call.request.GET[1].values) = 2
    /\ auth_call.request.GET[1].values[1] = <<"name">>
    /\ auth_call.request.GET[1].values[2] = <<"-", "base">>
    /\ auth_call.request.user_scopes = {"REFERS"}
    /\ auth_result = "PermissionDenied"

\* The one parameter of a request that validate_request takes as a filter,
\* well-formed or not: a GET on a dataset that is checked, the key not allowed
\* and no sort directive
IsFilterParameter(c) ==
    /\ c.fn = "validate_request"
    /\ c.request.method = "GET"
    /\ c.request.dataset # "bbga"
    /\ Len(c.request.GET) = 1
    /\ c.request.GET[1].key \notin c.allowed
    /\ c.request.GET[1].key \notin {<<"_sort">>, <<"sorteer">>}

\* the fields named by the sort directive of a sort request
SortKeyFields(c) ==
    LET values == c.request.GET[1].values
        keys(i) == SplitAll(values[i], ",")
    IN  UNION {{SortKeyField(keys(i)[j]) : j \in 1 .. Len(keys(i))} :
               i \in 1 .. Len(values)}

\* a sort directive that names a mandatory filter field is accepted only if
\* the access walk passes for that field
MandatorySortFieldChecked(c) ==
    IsSortRequest(c)
        => \A f \in SortKeyFields(c) \cap MandatoryFilters(c.request.profiles) :
               check_field_access(f, c.request.user_scopes, c.variant) # "ok"
                   => auth_result # "ok"

\* C30 as stated: the exemption of mandatory filters applies to filters only
\* and after parsing: a filter key with unbalanced brackets fails with
\* FilterSyntaxError, also when the key or its field is a mandatory filter,
\* and a mandatory filter field named in a sort directive is access-checked.
C30_UnbalancedKeyNotExempted ==
    /\ (IsFilterParameter(auth_call) /\ ~Balanced(auth_call.request.GET[1].key))
           => auth_result = "FilterSyntaxError"
    /\ MandatorySortFieldChecked(auth_call)

\* C30 as amended: a filter key that has a closing bracket and no opening
\* one, or an opening bracket and no closing bracket at its end, fails with
\* FilterSyntaxError, also when the key or its field is a mandatory filter,
\* and a mandatory filter field named in a sort directive is access-checked.
C30_RejectedKeyNotExempted ==
    /\ IsFilterParameter(auth_call)
           => LET key == auth_call.request.GET[1].key
              IN  (\/ ~Contains(key, "[") /\ Contains(key, "]")
                   \/ Contains(key, "[") /\ ~EndsWith(key, "]"))
                      => auth_result = "FilterSyntaxError"
    /\ MandatorySortFieldChecked(auth_call)

\* The key "name[contains", itself a mandatory filter of the active profile,
\* failed with FilterSyntaxError
C30_Witness_MandatoryKeyStillParsed ==
    /\ IsFilterParameter(auth_call)
    /\ auth_call.request.GET[1].key = <<"name", "[", "contains">>
    /\ auth_call.request.GET[1].key \in MandatoryFilters(auth_call.request.profiles)
    /\ auth_result = "FilterSyntaxError"

\* an expanded field that the scopes give access to: its relation field and
\* its related table
MatchAccessible(m) == m.field_perm /\ m.table_perm

\* an expanded field with a nested expansion in which a field is inaccessible
NestedInaccessible(m) ==
    /\ m.nested_expand_scope
    /\ m.expandable
    /\ \E i \in 1 .. Len(m.expanded_fields) : ~MatchAccessible(m.expanded_fields[i])

\* C26: with skip_unauth, filter_unauthorized_expands never raises and
\* returns the accessible expanded fields in their order; without it, the
\* call raises PermissionDenied when an expanded field is inaccessible or an
\* accessible one has a nested expansion with an inaccessible field, and
\* else returns all the expanded fields in their order.
C26_ExpandsFiltered ==
    auth_call.fn = "filter_unauthorized_expands"
        => LET xs == auth_call.expanded_fields
               accessible == SelectSeq(xs, MatchAccessible)
           IN  IF auth_call.skip_unauth
               THEN auth_result = ExpandsOk(accessible)
               ELSE IF \E i \in 1 .. Len(xs) :
                           ~MatchAccessible(xs[i]) \/ NestedInaccessible(xs[i])
                    THEN auth_result.raised = "PermissionDenied"
                    ELSE auth_result = ExpandsOk(xs) /\ accessible = xs

\* Of two expanded fields the first lacked access to the related table only:
\* it was dropped under skip_unauth and the second was returned
C26_Witness_DroppedSilently ==
    /\ auth_call.fn = "filter_unauthorized_expands"
    /\ auth_call.skip_unauth
    /\ Len(auth_call.expanded_fields) = 2
    /\ auth_call.expanded_fields[1].field_perm
    /\ ~auth_call.expanded_fields[1].table_perm
    /\ MatchAccessible(auth_call.expanded_fields[2])
    /\ NestedInaccessible(auth_call.expanded_fields[2])
    /\ auth_result = ExpandsOk(<<auth_call.expanded_fields[2]>>)

(***************************************************************************)
(*                        SERIALIZER FACTORY                               *)
(***************************************************************************)

MAX_EMBED_NESTING_LEVEL == 10

\* The dynamic models of the schema: A has the nested table N and a forward
\* relation to the temporal table B; B has a forward relation back to A. T is
\* a temporal table without relations, whose identification field has a
\* name of its own in the database.
DynamicModels == {"A", "B", "N", "T"}
\* What else a caller may hand to the factory: a string that was never
\* resolved, an object that is no DynamicModel, and a model of an older
\* schema load.
ModelRefs == DynamicModels \cup {"str", "lazy", "stale"}
Depths == {0, 1}

\* model.is_temporal() / table_schema.temporal
IsTemporal(model) == model \in {"B", "T"}
\* model.has_parent_table()
HasParentTable(model) == model = "N"
\* the nested tables of a model, in the order of model._meta.related_objects
NestedTables(model) == IF model = "A" THEN <<"N">> ELSE <<>>
\* the models that the relation fields of a model point to: A and B refer to
\* each other, and B also refers to itself
RelatedModels(model) ==
    IF model = "A" THEN {"B"} ELSE IF model = "B" THEN {"A", "B"} ELSE {}

\* ---- the fields of the tables ---------------------------------------------
\* An identifier is a sequence of words: "^" before a word stands for its
\* capital letter and "_" for an underscore, so "beginGeldigheid" is
\* <<"begin", "^", "geldigheid">> and "begin_geldigheid" is
\* <<"begin", "_", "geldigheid">>.

\* schematools.utils.toCamelCase: underscores become capitals, the first
\* letter is lower case
toCamelCase(ident) ==
    LET body == [i \in 1 .. Len(ident) |-> IF ident[i] = "_" THEN "^" ELSE ident[i]]
    IN  IF Len(body) > 0 /\ body[1] = "^" THEN Tail(body) ELSE body

\* schematools.utils.to_snake_case: capitals become underscores
to_snake_case(ident) ==
    [i \in 1 .. Len(ident) |-> IF ident[i] = "^" THEN "_" ELSE ident[i]]

\* a field of a table schema: its id, its name (the id unless the schema
\* gives the field another name), the model it refers to ("" for a scalar),
\* and whether Django made the field itself (an AutoField)
SchemaField(id, name, related, auto) ==
    [id |-> id, name |-> name, related |-> related, auto |-> auto]
Scalar(id) == SchemaField(id, id, "", FALSE)

\* model._meta.get_fields() with the schema field of each model field
ModelFields(model) ==
    IF model = "A"
    THEN <<SchemaField(<<"ogc_fid">>, <<"ogc_fid">>, "", TRUE),
           Scalar(<<"id">>), Scalar(<<"naam">>),
           SchemaField(<<"ligt", "^", "in">>, <<"ligt", "^", "in">>, "B", FALSE)>>
    ELSE IF model = "B"
    THEN <<Scalar(<<"id">>), Scalar(<<"identificatie">>), Scalar(<<"volgnummer">>),
           Scalar(<<"begin", "^", "geldigheid">>),
           SchemaField(<<"hoort", "^", "bij">>, <<"hoort", "^", "bij">>, "A", FALSE),
           SchemaField(<<"vorige">>, <<"vorige">>, "B", FALSE)>>
    ELSE IF model = "T"
    THEN <<Scalar(<<"id">>),
           SchemaField(<<"identificatie">>, <<"ident">>, "", FALSE),
           Scalar(<<"volgnummer">>), Scalar(<<"naam">>)>>
    ELSE <<Scalar(<<"id">>), SchemaField(<<"parent">>, <<"parent">>, "A", FALSE),
           Scalar(<<"waarde">>)>>

\* model_field.name: the snake-cased name of the schema field
ModelFieldName(f) == to_snake_case(f.name)

\* table_schema.identifier: field ids
TableIdentifier(model) ==
    IF IsTemporal(model) THEN << <<"identificatie">>, <<"volgnummer">> >>
    ELSE << <<"id">> >>

\* lines 212-215
unwanted_identifiers(model) ==
    IF IsTemporal(model)
    THEN {toCamelCase(TableIdentifier(model)[i]) : i \in 1 .. Len(TableIdentifier(model))}
    ELSE {}

\* lines 227-239: the exclusions (none of the tables is a through table)
is_excluded(model, f) ==
    \/ HasParentTable(model) /\ ModelFieldName(f) \in {<<"id">>, <<"parent">>}
    \/ IsTemporal(model) /\ toCamelCase(ModelFieldName(f)) \in unwanted_identifiers(model)

\* _build_serializer_field: the names a model field adds to Meta.fields; a
\* foreign key adds its raw id (and an embedded field, which is no body field)
build_serializer_field(f) ==
    IF f.related # ""
    THEN <<toCamelCase(ModelFieldName(f) \o <<"_", "id">>)>>
    ELSE <<toCamelCase(ModelFieldName(f))>>

\* lines 218-241: the body fields of the serializer class of a model
RECURSIVE body_fields_from(_, _)
body_fields_from(model, fs) ==
    IF Len(fs) = 0 THEN <<>>
    ELSE (IF Head(fs).auto \/ is_excluded(model, Head(fs))
          THEN <<>>
          ELSE build_serializer_field(Head(fs)))
         \o body_fields_from(model, Tail(fs))

\* Meta.fields of the class that serializer_factory(model) returns
body_fields(model) ==
    (IF HasParentTable(model) THEN <<>> ELSE << <<"_links">> >>)
        \o body_fields_from(model, ModelFields(model))

\* A cache is a set of <<key, instance>> pairs
Lookup(cache, k) ==
    IF \E e \in cache : e[1] = k
    THEN (CHOOSE e \in cache : e[1] = k)[2]
    ELSE 0
Store(cache, k, inst) == {e \in cache : e[1] # k} \cup {<<k, inst>>}

\* a cache key that includes the nesting level, as lru_cache() would make it
serializer_cache_key_with_level(model, depth, nesting_level) ==
    <<model, depth, nesting_level>>

\* _serializer_cache_key(model, depth, nesting_level)
serializer_cache_key(model, depth, nesting_level) == <<model, depth>>

\* _validate_model
validate_model(model) ==
    IF model = "str" THEN "ImproperlyConfigured"
    ELSE IF model = "lazy" THEN "TypeError"
    ELSE IF model = "stale" THEN "RuntimeError: older model"
    ELSE "none"

\* _temporal_link_serializer_factory(related_model), cached by the model
temporal_link_serializer_factory(related_model, st) ==
    IF Lookup(st.temporal_cache, related_model) # 0
    THEN st
    ELSE [st EXCEPT !.temporal_cache = Store(@, related_model, st.next_instance),
                    !.next_instance = @ + 1]

\* _links_serializer_factory(model, depth): the link classes of the model itself
\* and of its relations; only the temporal ones are cached.
RECURSIVE links_for(_, _)
links_for(targets, st) ==
    IF targets = {} THEN st
    ELSE LET t == CHOOSE t \in targets : TRUE
             st1 == IF IsTemporal(t)
                    THEN temporal_link_serializer_factory(t, st)
                    ELSE st
         IN  links_for(targets \ {t}, st1)

links_serializer_factory(model, depth, st) ==
    links_for({model} \cup RelatedModels(model), st)

Failed(st, raised) == [st |-> st, raised |-> raised, inst |-> 0]

RECURSIVE serializer_factory(_, _, _, _), serializer_factory_body(_, _, _, _),
          generate_nested_relations(_, _, _)

\* _generate_nested_relations: one factory call per nested table, at
\* nesting_level + 1 and the default depth
generate_nested_relations(tables, nesting_level, st) ==
    IF Len(tables) = 0
    THEN [st |-> st, raised |-> "none", inst |-> 0]
    ELSE LET r == serializer_factory(Head(tables), 0, nesting_level + 1, st)
         IN  IF r.raised # "none"
             THEN r
             ELSE generate_nested_relations(Tail(tables), nesting_level, r.st)

\* an embedded field whose serializer class is built when the field is made
build_serializer_embedded_field_eager(related_model, nesting_level, st) ==
    serializer_factory(related_model, 1, nesting_level + 1, st)

\* _build_serializer_embedded_field: the serializer class of the field is a
\* SimpleLazyObject around serializer_factory(related_model, depth=1,
\* nesting_level + 1); making the field calls nothing
build_serializer_embedded_field(related_model, nesting_level, st) ==
    [st |-> st, raised |-> "none", inst |-> 0]

\* lines 218-241: the fields of the model; each relation field gets an
\* embedded field (_build_serializer_field, lines 429-438)
RECURSIVE build_serializer_fields(_, _, _)
build_serializer_fields(targets, nesting_level, st) ==
    IF targets = {} THEN [st |-> st, raised |-> "none", inst |-> 0]
    ELSE LET t == CHOOSE t \in targets : TRUE
             r == build_serializer_embedded_field(t, nesting_level, st)
         IN  IF r.raised # "none"
             THEN r
             ELSE build_serializer_fields(targets \ {t}, nesting_level, r.st)

\* the recursion test with > in place of >=
recursion_limit_reached_above(nesting_level) ==
    nesting_level > MAX_EMBED_NESTING_LEVEL

\* line 176: if nesting_level >= MAX_EMBED_NESTING_LEVEL
recursion_limit_reached(nesting_level) ==
    nesting_level >= MAX_EMBED_NESTING_LEVEL

\* the body of serializer_factory (lines 176-246)
serializer_factory_body(model, depth, nesting_level, st) ==
    IF recursion_limit_reached(nesting_level)
    THEN Failed(st, "RuntimeError: recursion")
    ELSE IF validate_model(model) # "none"
    THEN Failed(st, validate_model(model))
    ELSE LET st1 == IF ~HasParentTable(model)
                    THEN links_serializer_factory(model, depth, st)
                    ELSE st
             f == build_serializer_fields(RelatedModels(model), nesting_level, st1)
             r == IF f.raised # "none"
                  THEN f
                  ELSE generate_nested_relations(NestedTables(model), nesting_level,
                                                 f.st)
         IN  IF r.raised # "none"
             THEN r
             ELSE \* construct_class: a new class
                  [st |-> [r.st EXCEPT !.next_instance = @ + 1],
                   raised |-> "none", inst |-> r.st.next_instance]

\* a wrapper that also stores an entry for the key when the body has failed
serializer_factory_caches_failure(model, depth, nesting_level, st) ==
    LET k == serializer_cache_key(model, depth, nesting_level)
        hit == Lookup(st.factory_cache, k)
    IN  IF hit # 0
        THEN [st |-> st, raised |-> "none", inst |-> hit]
        ELSE LET r == serializer_factory_body(model, depth, nesting_level, st)
             IN  [st |-> [r.st EXCEPT !.factory_cache =
                                         Store(@, k, IF r.raised = "none" THEN r.inst
                                                     ELSE r.st.next_instance)],
                  raised |-> r.raised, inst |-> r.inst]

\* serializer_factory as decorated: @cached(cache=_serializer_factory_cache,
\* key=_serializer_cache_key). `returned` and `clash` record, per (model,
\* depth), the instance last returned and whether a call returned another one.
serializer_factory(model, depth, nesting_level, st) ==
    LET k == serializer_cache_key(model, depth, nesting_level)
        hit == Lookup(st.factory_cache, k)
        note(s, inst) ==
            [s EXCEPT !.returned = Store(@, <<model, depth>>, inst),
                      !.clash = @ \/ Lookup(s.returned, <<model, depth>>) \notin {0, inst}]
    IN  IF hit # 0
        THEN [st |-> note(st, hit), raised |-> "none", inst |-> hit]
        ELSE LET r == serializer_factory_body(model, depth, nesting_level, st)
             IN  IF r.raised # "none"
                 THEN r
                 ELSE [st |-> note([r.st EXCEPT !.factory_cache = Store(@, k, r.inst)],
                                   r.inst),
                       raised |-> "none", inst |-> r.inst]

\* The threads of the process that may call serializer_factory at once, and
\* where a thread is in the wrapper that @cached puts around the function:
\* "idle" before its call, "building" after its lookup missed, "built" with
\* the class that the body returned, "done" once the wrapper has returned.
Threads == 1 .. MaxThreads
Idle == [pc |-> "idle", model |-> "", depth |-> 0, inst |-> 0, raised |-> "none"]

FactoryState ==
    [factory_cache |-> factory_cache, temporal_cache |-> temporal_cache,
     next_instance |-> next_instance, returned |-> returned, clash |-> FALSE]

InitFactory ==
    /\ factory_cache = {}
    /\ temporal_cache = {}
    /\ next_instance = 1
    /\ returned = {}
    /\ fac_call = [op |-> "none"]
    /\ callers = [t \in Threads |-> Idle]

\* A caller (a view, or an embedded field on first access) asks for a serializer class
\* The nesting levels a call is made at: the outermost ones, and those around
\* the limit
LevelInputs == {0, 1} \cup ((MAX_EMBED_NESTING_LEVEL - 1) .. MaxLevel)

SerializerFactoryCall ==
    \E model \in ModelRefs, depth \in Depths, nesting_level \in LevelInputs :
        LET r == serializer_factory(model, depth, nesting_level, FactoryState)
        IN  /\ r.st.next_instance <= MaxInstances + 1
            /\ factory_cache' = r.st.factory_cache
            /\ temporal_cache' = r.st.temporal_cache
            /\ next_instance' = r.st.next_instance
            /\ returned' = r.st.returned
            /\ fac_call' = [op |-> "serializer_factory", model |-> model,
                            depth |-> depth, nesting_level |-> nesting_level,
                            cached |-> Lookup(factory_cache, <<model, depth>>) # 0,
                            raised |-> r.raised, inst |-> r.inst,
                            clash |-> r.st.clash,
                            fields |-> IF r.raised = "none"
                                       THEN body_fields(model) ELSE <<>>]
            /\ UNCHANGED <<callers, pagVars, authVars, urlVars>>

\* a clear that forgets the cache of the temporal link classes
clear_serializer_cache_only ==
    /\ factory_cache' = {}
    /\ UNCHANGED temporal_cache

\* clear_serializer_factory_cache, on the dynamic_models_removed signal
clear_serializer_factory_cache ==
    /\ factory_cache' = {}
    /\ temporal_cache' = {}

ClearCacheCall ==
    /\ clear_serializer_factory_cache
    /\ returned' = {}
    /\ fac_call' = [op |-> "clear"]
    /\ UNCHANGED <<next_instance, callers, pagVars, authVars, urlVars>>

NextFactory ==
    \/ SerializerFactoryCall
    \/ ClearCacheCall

\* ---- concurrent callers: the steps of the @cached wrapper, which is given
\* no lock --------------------------------------------------------------

\* k = key(*args); try: return cache[k]; except KeyError: pass
WrapperLookup(t) ==
    \E model \in DynamicModels, depth \in Depths :
        LET hit == Lookup(factory_cache, serializer_cache_key(model, depth, 0))
        IN  /\ callers[t].pc = "idle"
            /\ callers' = [callers EXCEPT ![t] =
                              [pc |-> IF hit # 0 THEN "done" ELSE "building",
                               model |-> model, depth |-> depth,
                               inst |-> hit, raised |-> "none"]]
            /\ UNCHANGED <<factory_cache, temporal_cache, next_instance,
                           returned, fac_call, pagVars, authVars, urlVars>>

\* v = func(*args): the body of serializer_factory, at nesting level 0
WrapperBuild(t) ==
    LET c == callers[t]
        r == serializer_factory_body(c.model, c.depth, 0, FactoryState)
    IN  /\ c.pc = "building"
        /\ r.st.next_instance <= MaxInstances + 1
        /\ factory_cache' = r.st.factory_cache
        /\ temporal_cache' = r.st.temporal_cache
        /\ next_instance' = r.st.next_instance
        /\ callers' = [callers EXCEPT ![t] =
                          [c EXCEPT !.pc = IF r.raised = "none" THEN "built" ELSE "done",
                                    !.inst = r.inst, !.raised = r.raised]]
        /\ UNCHANGED <<returned, fac_call, pagVars, authVars, urlVars>>

\* cache[k] = v; return v
WrapperStore(t) ==
    LET c == callers[t]
    IN  /\ c.pc = "built"
        /\ factory_cache' =
               Store(factory_cache, serializer_cache_key(c.model, c.depth, 0), c.inst)
        /\ callers' = [callers EXCEPT ![t] = [c EXCEPT !.pc = "done"]]
        /\ UNCHANGED <<temporal_cache, next_instance, returned, fac_call,
                       pagVars, authVars, urlVars>>

Lookups == \E t \in Threads : WrapperLookup(t)
Builds == \E t \in Threads : WrapperBuild(t)
Stores == \E t \in Threads : WrapperStore(t)

NextRace ==
    \/ Lookups
    \/ Builds
    \/ Stores

(***************************************************************************)
(* Properties of the serializer factory, checked under SpecFactory.        *)
(***************************************************************************)

\* C1: a serializer_factory call that returns, returns the instance that the
\* last call with the same (model, depth) returned when the cache was not
\* cleared in between, whatever the nesting levels of the two calls; the
\* same holds of the calls it makes for its nested tables.
C1_SameKeySameInstance ==
    [][(fac_call'.op = "serializer_factory" /\ fac_call'.raised = "none")
          => /\ ~fac_call'.clash
             /\ Lookup(returned, <<fac_call'.model, fac_call'.depth>>)
                    \in {0, fac_call'.inst}]_vars

\* A call at a nesting level at which nothing is ever built was answered with
\* the instance returned before for its (model, depth)
C1_Witness_OtherLevelSameInstance ==
    /\ fac_call.op = "serializer_factory"
    /\ fac_call.raised = "none"
    /\ fac_call.cached
    /\ fac_call.nesting_level = MAX_EMBED_NESTING_LEVEL
    /\ fac_call.inst = Lookup(factory_cache, <<fac_call.model, fac_call.depth>>)

\* C16: clear_serializer_factory_cache leaves both caches empty in one step,
\* and the first build of a (model, depth) after it, as a call or as a nested
\* table of one, returns a class constructed in that call, never one that
\* existed before.
C16_ClearThenFreshBuild ==
    [][/\ fac_call'.op = "clear"
            => (factory_cache' = {} /\ temporal_cache' = {})
       /\ (/\ fac_call'.op = "serializer_factory"
           /\ fac_call'.raised = "none"
           /\ Lookup(returned, <<fac_call'.model, fac_call'.depth>>) = 0)
            => /\ fac_call'.inst >= next_instance
               /\ fac_call'.inst < next_instance']_vars

\* The nested table N was built, the caches were cleared, and N was built
\* again as a second class: nothing but N's new class is cached
C16_Witness_RebuiltAfterClear ==
    /\ fac_call.op = "serializer_factory"
    /\ fac_call.model = "N"
    /\ fac_call.raised = "none"
    /\ ~fac_call.cached
    /\ fac_call.inst = 2
    /\ factory_cache = {<<<<"N", fac_call.depth>>, 2>>}
    /\ temporal_cache = {}

\* C22: building the class of a model builds the class of none of the models
\* its embedded fields refer to: a call on a dynamic model below the nesting
\* limit returns also when the relations form a cycle (A -> B -> A, B -> B),
\* and when it has returned, the cache entries of the embedded targets are
\* what they were before the call (the entry of the call itself apart).
C22_EmbeddedTargetsDeferred ==
    [][fac_call'.op = "serializer_factory"
          => LET c == fac_call'
             IN  /\ (c.model \in DynamicModels
                        /\ c.nesting_level + 1 < MAX_EMBED_NESTING_LEVEL)
                       => c.raised = "none"
                 /\ c.raised = "none"
                       => \A m \in RelatedModels(c.model), d \in Depths :
                              <<m, d>> # <<c.model, c.depth>>
                                  => Lookup(factory_cache', <<m, d>>)
                                         = Lookup(factory_cache, <<m, d>>)]_vars

\* The class of A was built at the outermost level while nothing was cached
\* for B: A is cached and B, which A embeds and which embeds A, is not
C22_Witness_CycleBuiltWithoutTarget ==
    /\ fac_call.op = "serializer_factory"
    /\ fac_call.model = "A"
    /\ fac_call.nesting_level = 0
    /\ ~fac_call.cached
    /\ fac_call.raised = "none"
    /\ Lookup(factory_cache, <<"A", fac_call.depth>>) = fac_call.inst
    /\ \A d \in Depths : Lookup(factory_cache, <<"B", d>>) = 0

\* the schema fields of a model that its identifier lists
IdentifierFields(model) ==
    {ModelFields(model)[i] : i \in {j \in 1 .. Len(ModelFields(model)) :
        \E k \in 1 .. Len(TableIdentifier(model)) :
            ModelFields(model)[j].id = TableIdentifier(model)[k]}}

\* the body fields of the last class returned, as a set
BodyFieldSet == {fac_call.fields[i] : i \in 1 .. Len(fac_call.fields)}

\* C23: the class of a temporal table has none of the fields of the table's
\* identifier as a body field; the class of a table that is not temporal (and
\* not nested) has its identifier fields in the body.
C23_TemporalIdentifierNotInBody ==
    (fac_call.op = "serializer_factory" /\ fac_call.raised = "none")
        => \A f \in IdentifierFields(fac_call.model) :
               /\ IsTemporal(fac_call.model)
                     => toCamelCase(ModelFieldName(f)) \notin BodyFieldSet
               /\ (~IsTemporal(fac_call.model) /\ ~HasParentTable(fac_call.model))
                     => toCamelCase(ModelFieldName(f)) \in BodyFieldSet

\* C28 as stated: a call that fails leaves both caches as they were.
C28_FailedBuildChangesNoCache ==
    [][(fac_call'.op = "serializer_factory" /\ fac_call'.raised # "none")
          => /\ factory_cache' = factory_cache
             /\ temporal_cache' = temporal_cache]_vars

\* C28 as amended: a call that fails stores nothing for its key and changes
\* or removes no entry of either cache, so the next call with the key builds
\* again. A call that fails on its own nesting level or on its model leaves
\* both caches as they were; a call that fails in the build of a nested
\* table keeps what was completed before: the temporal link classes of the
\* model and its relations, and the classes of nested tables.
C28_FailedBuildKeepsCompletedParts ==
    [][(fac_call'.op = "serializer_factory" /\ fac_call'.raised # "none")
          => LET c == fac_call'
                 nested == NestedTables(c.model)
             IN  /\ Lookup(factory_cache', <<c.model, c.depth>>) = 0
                 /\ factory_cache \subseteq factory_cache'
                 /\ temporal_cache \subseteq temporal_cache'
                 /\ (c.nesting_level >= MAX_EMBED_NESTING_LEVEL
                        \/ c.model \notin DynamicModels)
                       => /\ factory_cache' = factory_cache
                          /\ temporal_cache' = temporal_cache
                 /\ \A e \in factory_cache' \ factory_cache :
                        \E i \in 1 .. Len(nested) : e[1] = <<nested[i], 0>>
                 /\ \A e \in temporal_cache' \ temporal_cache :
                        /\ IsTemporal(e[1])
                        /\ e[1] \in {c.model} \cup RelatedModels(c.model)]_vars

\* The build of A at level 9 failed on its nested table: A is not cached,
\* and the link class of B that the call made is
C28_Witness_LinkClassKeptAfterFailure ==
    /\ fac_call.op = "serializer_factory"
    /\ fac_call.model = "A"
    /\ fac_call.nesting_level = MAX_EMBED_NESTING_LEVEL - 1
    /\ fac_call.raised = "RuntimeError: recursion"
    /\ \A d \in Depths : Lookup(factory_cache, <<"A", d>>) = 0
    /\ Lookup(temporal_cache, "B") = next_instance - 1

\* C17: for every interleaving of concurrent first-use calls, each call
\* completes with a class, the cache holds one entry for the key, and the
\* callers of one (model, depth) that have returned all hold the same class,
\* which is the cached one.
C17_RacersObserveOneInstance ==
    \A t \in Threads :
        callers[t].pc = "done"
            => /\ callers[t].raised = "none"
               /\ callers[t].inst # 0
               /\ Cardinality({e \in factory_cache :
                                  e[1] = <<callers[t].model, callers[t].depth>>}) = 1
               /\ \A u \in Threads :
                      (/\ callers[u].pc = "done"
                       /\ callers[u].model = callers[t].model
                       /\ callers[u].depth = callers[t].depth)
                          => callers[u].inst = callers[t].inst

\* C9 as stated: a call fails with the recursion error exactly when its
\* nesting level exceeds 10, also when its (model, depth) is cached.
C9_FailsExactlyAboveTen ==
    fac_call.op = "serializer_factory"
        => (fac_call.raised = "RuntimeError: recursion"
                <=> fac_call.nesting_level > 10)

\* C9 as amended: a call fails with the recursion error exactly when its
\* (model, depth) is not cached and a build is reached at a nesting level of
\* 10 or more: its own at level 10 or above, or that of a nested table that
\* is not cached, built at its level + 1. A cached call fails at no level.
C9_FailsWhenUncachedBuildReachesTen ==
    [][fac_call'.op = "serializer_factory"
          => LET c == fac_call'
                 nested == NestedTables(c.model)
                 uncached(m, d) == Lookup(factory_cache, <<m, d>>) = 0
             IN  (c.raised = "RuntimeError: recursion")
                     <=> /\ uncached(c.model, c.depth)
                         /\ \/ c.nesting_level >= 10
                            \/ /\ c.nesting_level + 1 >= 10
                               /\ \E i \in 1 .. Len(nested) : uncached(nested[i], 0)]_vars

\* A call at level 9 whose key is not cached failed on the build of its
\* nested table at level 10
C9_Witness_NestedReachesTen ==
    /\ fac_call.op = "serializer_factory"
    /\ fac_call.nesting_level = 9
    /\ fac_call.model = "A"
    /\ ~fac_call.cached
    /\ fac_call.raised = "RuntimeError: recursion"


(***************************************************************************)
(*                     LINKS TO TEMPORAL ROWS                              *)
(*                                                                         *)
(* A primary key is a sequence of characters; the href is the lookup value *)
(* that the detail URL is reversed with, and the query parameter appended  *)
(* to it (<<>> when there is none).                                        *)
(***************************************************************************)

\* value[::-1]
Reverse(value) == [i \in 1 .. Len(value) |-> value[Len(value) + 1 - i]]

\* PK_SPLIT = re.compile("[_.]")
PK_SPLIT == {"_", "."}

\* PK_SPLIT.split(value, 1): at most one split, at the first separator
regex_split_once(value) ==
    IF \E i \in 1 .. Len(value) : value[i] \in PK_SPLIT
    THEN LET i == CHOOSE i \in 1 .. Len(value) :
                      /\ value[i] \in PK_SPLIT
                      /\ \A j \in 1 .. (i - 1) : value[j] \notin PK_SPLIT
         IN  <<SubSeq(value, 1, i - 1), SubSeq(value, i + 1, Len(value))>>
    ELSE <<value>>

\* a split on the first separator of the value as it is written
split_on_first_separator(value) == regex_split_once(value)

\* split_on_separator: reverse, split once, reverse the parts and their order
split_on_separator(value) ==
    LET parts == regex_split_once(Reverse(value))
    IN  Reverse([i \in 1 .. Len(parts) |-> Reverse(parts[i])])

\* request.dataset.temporal.get("identifier")
TemporalIdentifier == <<"volgnummer">>

NoUrl == [kind |-> "None", lookup |-> <<>>, query |-> <<>>]
UrlError(e) == [kind |-> e, lookup |-> <<>>, query |-> <<>>]
\* self.reverse(view_name, kwargs={lookup_field: lookup}), and "?key=value"
Url(lookup, query) == [kind |-> "url", lookup |-> lookup, query |-> query]

\* TemporalHyperlinkedRelatedField.get_url(obj, view_name, request): obj has
\* pk (pk_none: the pk is None) and is_temporal; request has versioned and
\* dataset_temporal_slice (<<>> for None, else <<key, value>>)
get_url(obj, request) ==
    IF obj.pk_none \/ obj.pk = <<>> THEN NoUrl
    ELSE IF request.versioned /\ obj.is_temporal
    THEN LET parts == split_on_separator(obj.pk)
         IN  IF Len(parts) # 2
             THEN UrlError("ValueError")      \* lookup_value, version = [pk]
             ELSE Url(parts[1],
                      IF request.dataset_temporal_slice = <<>>
                      THEN <<TemporalIdentifier, parts[2]>>
                      ELSE request.dataset_temporal_slice)
    ELSE Url(obj.pk, <<>>)

\* The rows a link is made for: keys of at most MaxPkLen characters
PkChars == {"a", "1", ".", "_"}
PkInputs == UNION {[1 .. m -> PkChars] : m \in 0 .. MaxPkLen}
SliceInputs == {<<>>, << <<"geldigOp">>, <<"2014-05-01">> >>}

InitUrl ==
    /\ url_call = [fn |-> "none"]
    /\ url_result = "none"

\* A link serializer renders its href field
GetUrlCall ==
    /\ url_call = [fn |-> "none"]
    /\ UNCHANGED <<pagVars, authVars, facVars>>
    /\ \E pk \in PkInputs, pk_none \in BOOLEAN, is_temporal \in BOOLEAN,
          versioned \in BOOLEAN, slice \in SliceInputs :
        LET obj == [pk |-> pk, pk_none |-> pk_none, is_temporal |-> is_temporal]
            request == [versioned |-> versioned, dataset_temporal_slice |-> slice]
        IN  /\ pk_none => pk = <<>>
            /\ url_call' = [fn |-> "get_url", obj |-> obj, request |-> request]
            /\ url_result' = get_url(obj, request)

NextUrl == GetUrlCall

\* the position of the last separator of a key, 0 when it has none
LastSeparator(pk) ==
    IF \E i \in 1 .. Len(pk) : pk[i] \in PK_SPLIT
    THEN CHOOSE i \in 1 .. Len(pk) :
             /\ pk[i] \in PK_SPLIT
             /\ \A j \in (i + 1) .. Len(pk) : pk[j] \notin PK_SPLIT
    ELSE 0

\* a call for a row that has a key
HasKey(c) == c.fn = "get_url" /\ ~c.obj.pk_none /\ c.obj.pk # <<>>

\* C24: for a temporal row in a versioned request, whose key has a separator,
\* the href is the detail URL of the key up to its last "." or "_", with one
\* query parameter: the temporal slice of the request when it has one, else
\* the temporal identifier with the part of the key after that separator.
\* For a row that is not temporal and for a request that is not versioned
\* the href is the detail URL of the whole key, without a query parameter.
C24_TemporalHref ==
    HasKey(url_call)
        => LET pk == url_call.obj.pk
               slice == url_call.request.dataset_temporal_slice
               last == LastSeparator(pk)
           IN  IF url_call.request.versioned /\ url_call.obj.is_temporal
               THEN last # 0
                      => url_result =
                           Url(SubSeq(pk, 1, last - 1),
                               IF slice # <<>> THEN slice
                               ELSE <<TemporalIdentifier,
                                      SubSeq(pk, last + 1, Len(pk))>>)
               ELSE url_result = Url(pk, <<>>)

\* The href of the temporal row "a_a.1" in a versioned request without a
\* slice is the URL of "a_a" with volgnummer=1
C24_Witness_SplitAtLastSeparator ==
    /\ HasKey(url_call)
    /\ url_call.obj.pk = <<"a", "_", "a", ".", "1">>
    /\ url_call.obj.is_temporal
    /\ url_call.request.versioned
    /\ url_call.request.dataset_temporal_slice = <<>>
    /\ url_result = Url(<<"a", "_", "a">>, <<TemporalIdentifier, <<"1">> >>)


(***************************************************************************)
(*                          SPECIFICATIONS                                 *)
(***************************************************************************)

\* The state after construction, per component under study
InitOfPage == InitPage /\ InitAuth /\ InitFactory /\ InitUrl
InitOfOthers == InitNoPaginator /\ InitAuth /\ InitFactory /\ InitUrl

SpecPage == InitOfPage /\ [][NextPage]_vars

SpecWalk == InitOfOthers /\ [][NextWalk]_vars

SpecValidate == InitOfOthers /\ [][NextValidate]_vars

SpecFactory == InitOfOthers /\ [][NextFactory]_vars

SpecParse == InitOfOthers /\ [][NextParse]_vars

SpecRace == InitOfOthers /\ [][NextRace]_vars

SpecUrl == InitOfOthers /\ [][NextUrl]_vars

SpecExpand == InitOfOthers /\ [][NextExpand]_vars

=============================================================================
